---- MODULE Spec2Model ----
(***************************************************************************)
(* Output-parsing and material-aggregation pipeline of scalePowerCreator:  *)
(* the batch orchestrator (tools/parallel_parseOutput_processor.py) and    *)
(* the material card generator with its ZAID derivation                     *)
(* (tools/parseOutput.py).                                                  *)
(***************************************************************************)
EXTENDS Integers, Sequences, FiniteSets, TLC

(***************************************************************************)
(* Bounds of the model.                                                    *)
(***************************************************************************)
\* number of element output files a directory listing may hold
MaxFiles == 3
\* largest worker-pool size tried
MaxWorkers == 2
\* largest number of rows of the nuclide mass tables drawn exhaustively
MaxRows == 2
\* mass, in quanta, of the one dominant nuclide a drawn table may hold
BigMass == 1000000000
\* number of trace nuclides of the one wide table
WideRows == 1001

(***************************************************************************)
(* Python's None and an optional value.                                    *)
(***************************************************************************)
None == <<>>
Some(x) == <<x>>

VARIABLES
    \* ---- ParallelParseOutputProcessor ----
    executor_type,      \* "thread" | "process"
    max_workers,        \* size of the worker pool
    jobs,               \* self.jobs: the dict in insertion order, a sequence of ElementParseJob
    stop_monitoring,    \* self.stop_monitoring
    progress_callback,  \* the callback handed to process_all_parallel
    pc,                 \* position of the coordinating thread (main)
    submit_pos,         \* position of the submit loop in self.jobs.values()
    job_index,          \* the local job_index counter of the process branch
    fut,                \* per job position: state of its future / worker
    fresult,            \* per job position: the value the future returns
    handled,            \* job positions whose future as_completed has yielded
    results,            \* the results dict: element name -> success
    failed_jobs,        \* the failed_jobs list
    combined_file,      \* the file save_combined_materials writes (None: not written)
    submitted,          \* history: element names in the order executor.submit was called
    runs,               \* history: per job position, how often a worker began its pipeline
    completed_order     \* history: element names in the order their futures completed

batchVars == <<executor_type, max_workers, jobs, stop_monitoring, progress_callback,
               pc, submit_pos, job_index, fut, fresult, handled, results,
               failed_jobs, combined_file, submitted, runs, completed_order>>

VARIABLES
    \* ---- OptimizedORIGENParser ----
    available_isotopes, \* self.available_isotopes: the set of usable ZAIDs
    element_cache,      \* self.element_cache: element name -> atomic number
    df,                 \* the nuclide mass table handed to generate_mcnp_materials
    gen_out,            \* what generate_mcnp_materials returned or raised (None: not called)
    nuclide_name,       \* the name handed to nuclide_to_zaid
    zaid_out            \* what nuclide_to_zaid returned (None: not called)

genVars == <<available_isotopes, element_cache, df, gen_out, nuclide_name, zaid_out>>

VARIABLES
    \* ---- histories of the parser's other operations ----
    zaid_log            \* the nuclide_to_zaid calls of one run, in order: [name, zaid]

runVars == <<zaid_log>>

IdleRun == zaid_log = <<>>

VARIABLES
    \* ---- OptimizedORIGENParser.parse_all_sections ----
    content,            \* the output text: its section blocks in text order
    selected_case,      \* the selected_case argument (None: not given)
    parse_out           \* what parse_all_sections returned or raised (None: not called)

parseVars == <<content, selected_case, parse_out>>

IdleParse ==
    /\ content = <<>>
    /\ selected_case = None
    /\ parse_out = None

VARIABLES
    \* ---- the isotope registries ----
    library_suffix,     \* MCNPMaterialConverter.library_suffix: the selected library
    registry_files,     \* per library: the state of its registry file on disk
    reg_out,            \* what _initialize_available_isotopes returned or raised (None: not called)
    endf8_out           \* what load_endf8_isotopes returned (None: not called)

regVars == <<library_suffix, registry_files, reg_out, endf8_out>>

IdleRegistry ==
    /\ library_suffix = ".00c"
    /\ registry_files = <<>>
    /\ reg_out = None
    /\ endf8_out = None

VARIABLES
    \* ---- main(): interrupt and final reports ----
    interrupted_jobs,   \* history: job positions in mid-pipeline when the interrupt arrived
    summary_json,       \* the file save_summary_json writes (None: not written)
    console             \* the final summary main prints (None: not printed)

reportVars == <<summary_json, console>>

mainVars == <<interrupted_jobs, reportVars>>

IdleMain ==
    /\ interrupted_jobs = {}
    /\ summary_json = None
    /\ console = None

moreVars == <<runVars, parseVars, regVars, mainVars>>

VARIABLES
    \* ---- shared resources of a batch and the progress-monitor thread ----
    file_log,           \* history: accesses to the element cache file and the database
    record_writers,     \* history: per job position, the threads that assigned a field
                        \* of the job record (0: the coordinating thread, i: the pool
                        \* worker that processes job position i)
    database,           \* the materials database (None: not created)
    monitor,            \* position of the progress-monitor thread
    progress_seen       \* the counts the monitor thread logged last (None: none yet)

auditVars == <<file_log, record_writers, database, monitor, progress_seen>>

VARIABLES
    \* ---- the data-line loop of extract_section_data ----
    last_col_index,     \* len(time_columns): the number of tokens of the header line
    section_lines,      \* lines[data_start:]: the lines after the header
    clean_data          \* the clean_data list when the loop is over (None: not run)

lineVars == <<last_col_index, section_lines, clean_data>>

IdleLine ==
    /\ last_col_index = 1
    /\ section_lines = <<>>
    /\ clean_data = None

VARIABLES
    \* ---- ScaleParallelRunner ----
    runner_workers,     \* self.max_workers
    scale_jobs,         \* self.jobs in insertion order: status and return_code of each
    msg_files,          \* per job: what the SCALE process has written to its .msg file
    scale_worker,       \* per job: position of _run_single_job
    worker_status,      \* history: per job, the status its worker set at line 130 / 135 / 148
    scale_monitor,      \* the monitor thread: its position, the job and the status it parsed
    scale_results,      \* the results dict of run_all_parallel, by job position
    scale_stop,         \* self.stop_monitoring
    scale_pc            \* position of run_all_parallel

runnerVars == <<runner_workers, scale_jobs, msg_files, scale_worker, worker_status,
                scale_monitor, scale_results, scale_stop, scale_pc>>

IdleRunner ==
    /\ runner_workers = 1
    /\ scale_jobs = <<>>
    /\ msg_files = <<>>
    /\ scale_worker = <<>>
    /\ worker_status = <<>>
    /\ scale_monitor = [pc |-> "not_started", job |-> 0, status |-> "unknown"]
    /\ scale_results = <<>>
    /\ scale_stop = FALSE
    /\ scale_pc = "constructed"

VARIABLES
    \* ---- CompleteWorkflow ----
    steps,              \* self.steps: the status of each step, in step_order
    resume_from,        \* the resume_from argument (None: not given)
    skip_flags,         \* skip_origen_generation (with its file present), skip_origen_verification
    start_index,        \* the index the resume point resolved to
    step_pos,           \* position of the loop over step_order (0: not called)
    workflow_return,    \* what run_complete_workflow returned (None: not yet)
    start_log           \* history: the steps on which start() was called, in order

workflowVars == <<steps, resume_from, skip_flags, start_index, step_pos,
                  workflow_return, start_log>>

IdleWorkflow ==
    /\ steps = <<>>
    /\ resume_from = None
    /\ skip_flags = [generation |-> FALSE, verification |-> FALSE]
    /\ start_index = 0
    /\ step_pos = 0
    /\ workflow_return = None
    /\ start_log = <<>>

otherVars == <<lineVars, runnerVars, workflowVars>>

\* none of the other components is in use
IdleOther == IdleLine /\ IdleRunner /\ IdleWorkflow

\* no file was touched and no monitor thread exists
IdleAudit ==
    /\ file_log = {}
    /\ record_writers = <<>>
    /\ database = None
    /\ monitor = "not_started"
    /\ progress_seen = None

\* none of these operations has been used
IdleMore == IdleRun /\ IdleParse /\ IdleRegistry /\ IdleMain

vars == <<batchVars, genVars, moreVars, auditVars, otherVars>>

ExecutorTypes == {"thread", "process"}
\* None behaves like a callback that returns; a callback may also raise
CallbackKinds == {"none", "returns", "raises"}
\* what parse_all_sections / generate_mcnp_materials do on a file's content
FileKinds == {"ok", "malformed"}
\* the stems of the files, ordered as sorted() orders their paths
Stems == 1..MaxFiles

(***************************************************************************)
(* Helpers for the dict self.jobs and the results dict.                    *)
(***************************************************************************)
RECURSIVE SortedSeq(_)
\* sorted(element_files): the listing in ascending path order
SortedSeq(S) ==
    IF S = {} THEN <<>>
    ELSE LET m == CHOOSE x \in S : \A y \in S : x <= y
         IN  <<m>> \o SortedSeq(S \ {m})

\* an index into the keys counted from 1
KeyIndex_CountsFromOne(js, name) ==
    CHOOSE i \in 1..Len(js) : js[i].element_name = name

\* list(self.jobs.keys()).index(name), counted from 0
KeyIndex(js, name) ==
    (CHOOSE i \in 1..Len(js) : js[i].element_name = name) - 1

\* d[key] = value on a dict held as a function
DictSet(d, key, value) ==
    [k \in (DOMAIN d) \cup {key} |-> IF k = key THEN value ELSE d[k]]

\* ElementParseJob.__init__
ElementParseJob(file) ==
    [element_file    |-> file,
     element_name    |-> file.stem,
     start_time      |-> FALSE,
     end_time        |-> FALSE,
     status          |-> "not_started",
     material_card   |-> None,
     material_info   |-> None,
     error           |-> None,
     runtime_seconds |-> FALSE]

\* self.jobs[job.element_name] = job: a new key goes last, a known key keeps its place
JobsPut(js, job) ==
    IF \E i \in 1..Len(js) : js[i].element_name = job.element_name
    THEN [i \in 1..Len(js) |->
              IF js[i].element_name = job.element_name THEN job ELSE js[i]]
    ELSE Append(js, job)

RECURSIVE JobsPutAll(_, _)
JobsPutAll(js, files) ==
    IF files = <<>> THEN js
    ELSE JobsPutAll(JobsPut(js, ElementParseJob(Head(files))), Tail(files))

(***************************************************************************)
(* The per-file pipeline as the orchestrator sees it: parse_all_sections   *)
(* followed by generate_mcnp_materials either returns a card and its info  *)
(* or raises.                                                              *)
(***************************************************************************)
\* a material ID that ignores the job index (the default of generate_mcnp_materials)
MaterialId_Default(index) == 200 + 0 * index

\* material_id = 200 + job_index
MaterialId(index) == 200 + index

\* str(e) of the exception the pipeline raises on this file
PipelineError(file) == [element |-> file.stem, wrapped |-> FALSE]

\* f"Error parsing {element_name}: {str(e)}"
WrappedError(file) == [element |-> file.stem, wrapped |-> TRUE]

PipelineRaises(file) == file.kind # "ok"

\* the material card generate_mcnp_materials returns for this file
MaterialCard(file, material_id) == [source |-> file.stem, material_id |-> material_id]

\* material_info after element_name and material_id were added; composition stands
\* for total_mass_g, density_g_cm3, helium_mass_g and processed_zaids, which the
\* file's content determines
MaterialInfo(file, material_id) ==
    [source |-> file.stem, element_name |-> file.stem, material_id |-> material_id,
     composition |-> file.stem]

\* parse_element_file_process_safe: the tuple the worker process returns
parse_element_file_process_safe(file, index) ==
    IF PipelineRaises(file)
    THEN [element_name |-> file.stem, success |-> FALSE,
          error_msg |-> Some(WrappedError(file)),
          material_card |-> None, material_info |-> None]
    ELSE [element_name |-> file.stem, success |-> TRUE, error_msg |-> None,
          material_card |-> Some(MaterialCard(file, MaterialId(index))),
          material_info |-> Some(MaterialInfo(file, MaterialId(index)))]

JobIdx == 1..Len(jobs)

\* futures a pool worker holds: taken from the queue and not yet done
Active == {i \in JobIdx : fut[i].st \in {"taken", "running", "stored", "failing"}}

\* every job has reached a terminal status
AllTerminal(js) == \A i \in 1..Len(js) : js[i].status \in {"completed", "failed"}

\* an access to a persistent file by thread 'by' (0: the coordinating thread)
FileAccess(file, op, by, js) ==
    [file |-> file, op |-> op, by |-> by, jobs_terminal |-> AllTerminal(js)]

\* a worker whose parser also persists its element cache
WorkerFileOps_SavesCache(i, js) ==
    {FileAccess("element_cache", "read", i, js),
     FileAccess("element_cache", "write", i, js)}

\* the persistent files the pipeline of job position i touches: its parser loads
\* the element cache file when it is constructed; get_atomic_number adds to the
\* parser's own dict only and the pipeline never calls save_element_cache
WorkerFileOps(i, js) == {FileAccess("element_cache", "read", i, js)}

\* the thread 'by' assigns a field of the record of job position i
Wrote(writers, i, by) == [writers EXCEPT ![i] = @ \cup {by}]

(***************************************************************************)
(* Init: the state after ParallelParseOutputProcessor.__init__.            *)
(***************************************************************************)
InitBatch ==
    /\ executor_type \in ExecutorTypes
    /\ max_workers \in 1..MaxWorkers
    /\ jobs = <<>>
    /\ stop_monitoring = FALSE
    /\ progress_callback = "none"
    /\ pc = "constructed"
    /\ submit_pos = 1
    /\ job_index = 0
    /\ fut = <<>>
    /\ fresult = <<>>
    /\ handled = {}
    /\ results = <<>>
    /\ failed_jobs = <<>>
    /\ combined_file = None
    /\ submitted = <<>>
    /\ runs = <<>>
    /\ completed_order = <<>>
    /\ IdleAudit
    /\ IdleOther

(***************************************************************************)
(* add_element_files: the glob's listing is an input; an empty listing     *)
(* raises ValueError, which main treats as fatal.                          *)
(***************************************************************************)
add_element_files ==
    /\ pc = "constructed"
    /\ \E listing \in SUBSET Stems :
         IF listing = {}
         THEN /\ pc' = "fatal"
              /\ UNCHANGED <<jobs, fut, fresult, runs, record_writers>>
         ELSE \E kind \in [listing -> FileKinds] :
              LET files == [i \in 1..Cardinality(listing) |->
                               [stem |-> SortedSeq(listing)[i],
                                kind |-> kind[SortedSeq(listing)[i]]]]
                  js == JobsPutAll(jobs, files)
              IN  /\ jobs' = js
                  /\ fut' = [i \in 1..Len(js) |-> [st |-> "none", arg |-> 0]]
                  /\ fresult' = [i \in 1..Len(js) |-> None]
                  /\ runs' = [i \in 1..Len(js) |-> 0]
                  /\ record_writers' = [i \in 1..Len(js) |-> {}]
                  /\ pc' = "ready"
    /\ UNCHANGED <<executor_type, max_workers, stop_monitoring, progress_callback,
                   submit_pos, job_index, handled, results, failed_jobs,
                   combined_file, submitted,
                   completed_order>>
    /\ UNCHANGED <<genVars, moreVars, otherVars, file_log, database, monitor, progress_seen>>

(***************************************************************************)
(* process_all_parallel, lines 228-240: the entry of the batch.            *)
(***************************************************************************)
\* lines 228-229: called with no job enqueued, it raises ValueError at once
RaiseNoJobs ==
    /\ pc = "constructed"
    /\ jobs = <<>>
    /\ pc' = "no_jobs"
    /\ UNCHANGED <<executor_type, max_workers, jobs, stop_monitoring,
                   progress_callback, submit_pos, job_index, fut, fresult, handled,
                   results, failed_jobs, combined_file, submitted, runs,
                   completed_order>>
    /\ UNCHANGED <<genVars, moreVars, otherVars, auditVars>>

StartProcessing ==
    /\ pc = "ready"
    /\ \E cb \in CallbackKinds : progress_callback' = cb
    /\ stop_monitoring' = FALSE
    /\ results' = <<>>
    /\ failed_jobs' = <<>>
    /\ job_index' = 0
    /\ submit_pos' = 1
    /\ pc' = "submitting"
    /\ UNCHANGED <<executor_type, max_workers, jobs, fut, fresult, handled,
                   combined_file, submitted, runs,
                   completed_order>>
    \* lines 236-237
    /\ monitor' = "running"
    /\ UNCHANGED <<genVars, moreVars, otherVars, file_log, record_writers, database, progress_seen>>

\* one turn of the submit loop (lines 252-267)
Submit ==
    /\ pc = "submitting"
    /\ submit_pos <= Len(jobs)
    /\ fut' = [fut EXCEPT ![submit_pos] = [st |-> "queued", arg |-> job_index]]
    /\ submitted' = Append(submitted, jobs[submit_pos].element_name)
    /\ job_index' = IF executor_type = "thread" THEN job_index ELSE job_index + 1
    /\ submit_pos' = submit_pos + 1
    /\ pc' = IF submit_pos = Len(jobs) THEN "collecting" ELSE "submitting"
    /\ UNCHANGED <<executor_type, max_workers, jobs, stop_monitoring,
                   progress_callback, fresult, handled, results, failed_jobs,
                   combined_file, runs,
                   completed_order>>
    /\ UNCHANGED <<genVars, moreVars, otherVars, auditVars>>

\* a pool worker takes the oldest queued work item
Dequeue(i) ==
    /\ fut[i].st = "queued"
    /\ \A k \in 1..(i - 1) : fut[k].st # "queued"
    /\ Cardinality(Active) < max_workers
    /\ fut' = [fut EXCEPT ![i].st = "taken"]
    /\ UNCHANGED <<executor_type, max_workers, jobs, stop_monitoring,
                   progress_callback, pc, submit_pos, job_index, fresult, handled,
                   results, failed_jobs, combined_file, submitted, runs,
                   completed_order>>
    /\ UNCHANGED <<genVars, moreVars, otherVars, auditVars>>

(***************************************************************************)
(* _parse_single_element, run by a pool thread (thread executor).          *)
(***************************************************************************)
\* lines 144-145
RunningJob(job) == [job EXCEPT !.start_time = TRUE, !.status = "running"]

\* a store of the card that leaves material_info unset
StoredJob_CardOnly(job, material_id) ==
    [job EXCEPT !.material_card = Some(MaterialCard(job.element_file, material_id))]

\* lines 171-174
StoredJob(job, material_id) ==
    [job EXCEPT !.material_card = Some(MaterialCard(job.element_file, material_id)),
                !.material_info = Some(MaterialInfo(job.element_file, material_id))]

\* lines 176-178
CompletedJob(job) ==
    [job EXCEPT !.end_time = TRUE, !.runtime_seconds = TRUE, !.status = "completed"]

\* an except clause that records the end time and leaves the status alone
FailedJob_KeepsRunning(job) == [job EXCEPT !.end_time = TRUE]

\* lines 187-188
FailedJob(job) == [job EXCEPT !.status = "failed", !.end_time = TRUE]

\* line 189
ErroredJob(job) == [job EXCEPT !.error = Some(PipelineError(job.element_file))]

\* lines 144-145
StartElement(i) ==
    /\ executor_type = "thread"
    /\ fut[i].st = "taken"
    /\ jobs' = [jobs EXCEPT ![i] = RunningJob(jobs[i])]
    /\ fut' = [fut EXCEPT ![i].st = "running"]
    /\ runs' = [runs EXCEPT ![i] = @ + 1]
    /\ UNCHANGED <<executor_type, max_workers, stop_monitoring, progress_callback,
                   pc, submit_pos, job_index, fresult, handled, results,
                   failed_jobs, combined_file, submitted,
                   completed_order>>
    /\ record_writers' = Wrote(record_writers, i, i)
    /\ UNCHANGED <<genVars, moreVars, otherVars, file_log, database, monitor, progress_seen>>

\* lines 149-174 when the pipeline returns, lines 186-188 when it raises
RunPipeline(i) ==
    /\ executor_type = "thread"
    /\ fut[i].st = "running"
    /\ LET job == jobs[i]
           material_id == MaterialId(KeyIndex(jobs, job.element_name))
       IN  IF PipelineRaises(job.element_file)
           THEN /\ jobs' = [jobs EXCEPT ![i] = FailedJob(job)]
                /\ fut' = [fut EXCEPT ![i].st = "failing"]
           ELSE /\ jobs' = [jobs EXCEPT ![i] = StoredJob(job, material_id)]
                /\ fut' = [fut EXCEPT ![i].st = "stored"]
    /\ UNCHANGED <<executor_type, max_workers, stop_monitoring, progress_callback,
                   pc, submit_pos, job_index, fresult, handled, results,
                   failed_jobs, combined_file, submitted, runs,
                   completed_order>>
    /\ record_writers' = Wrote(record_writers, i, i)
    /\ file_log' = file_log \cup WorkerFileOps(i, jobs)
    /\ UNCHANGED <<genVars, moreVars, otherVars, database, monitor, progress_seen>>

\* lines 176-184
CompleteElement(i) ==
    /\ executor_type = "thread"
    /\ fut[i].st = "stored"
    /\ jobs' = [jobs EXCEPT ![i] = CompletedJob(jobs[i])]
    /\ fresult' = [fresult EXCEPT ![i] =
           Some([element_name |-> jobs[i].element_name, success |-> TRUE,
                 error_msg |-> None, material_card |-> None,
                 material_info |-> None])]
    /\ fut' = [fut EXCEPT ![i].st = "done"]
    /\ completed_order' = Append(completed_order, jobs[i].element_name)
    /\ UNCHANGED <<executor_type, max_workers, stop_monitoring, progress_callback,
                   pc, submit_pos, job_index, handled, results, failed_jobs,
                   combined_file, submitted, runs>>
    /\ record_writers' = Wrote(record_writers, i, i)
    /\ UNCHANGED <<genVars, moreVars, otherVars, file_log, database, monitor, progress_seen>>

\* lines 189-191
RecordError(i) ==
    /\ executor_type = "thread"
    /\ fut[i].st = "failing"
    /\ jobs' = [jobs EXCEPT ![i] = ErroredJob(jobs[i])]
    /\ fresult' = [fresult EXCEPT ![i] =
           Some([element_name |-> jobs[i].element_name, success |-> FALSE,
                 error_msg |-> Some(PipelineError(jobs[i].element_file)),
                 material_card |-> None, material_info |-> None])]
    /\ fut' = [fut EXCEPT ![i].st = "done"]
    /\ completed_order' = Append(completed_order, jobs[i].element_name)
    /\ UNCHANGED <<executor_type, max_workers, stop_monitoring, progress_callback,
                   pc, submit_pos, job_index, handled, results, failed_jobs,
                   combined_file, submitted, runs>>
    /\ record_writers' = Wrote(record_writers, i, i)
    /\ UNCHANGED <<genVars, moreVars, otherVars, file_log, database, monitor, progress_seen>>

(***************************************************************************)
(* parse_element_file_process_safe, run by a worker process (process       *)
(* executor): it sees only its arguments and returns a tuple.              *)
(***************************************************************************)
RunInProcess(i) ==
    /\ executor_type = "process"
    /\ fut[i].st = "taken"
    /\ fresult' = [fresult EXCEPT ![i] =
           Some(parse_element_file_process_safe(jobs[i].element_file, fut[i].arg))]
    /\ fut' = [fut EXCEPT ![i].st = "done"]
    /\ runs' = [runs EXCEPT ![i] = @ + 1]
    /\ completed_order' = Append(completed_order, jobs[i].element_name)
    /\ UNCHANGED <<executor_type, max_workers, jobs, stop_monitoring,
                   progress_callback, pc, submit_pos, job_index, handled, results,
                   failed_jobs, combined_file, submitted>>
    /\ file_log' = file_log \cup WorkerFileOps(i, jobs)
    /\ UNCHANGED <<genVars, moreVars, otherVars, record_writers, database, monitor, progress_seen>>

(***************************************************************************)
(* process_all_parallel, lines 271-304: one turn of the as_completed loop. *)
(***************************************************************************)
\* a failure branch that sets the status and forgets the error text
PopulateJob_DropsError(job, r) ==
    IF r.success /\ r.material_card # None /\ r.material_info # None
    THEN [job EXCEPT !.material_card = r.material_card,
                     !.material_info = r.material_info,
                     !.status = "completed"]
    ELSE [job EXCEPT !.status = "failed"]

\* lines 282-288: the job as the coordinating thread populates it
PopulateJob(job, r) ==
    IF r.success /\ r.material_card # None /\ r.material_info # None
    THEN [job EXCEPT !.material_card = r.material_card,
                     !.material_info = r.material_info,
                     !.status = "completed"]
    ELSE [job EXCEPT !.status = "failed", !.error = r.error_msg]

CollectResult(i) ==
    /\ pc = "collecting"
    /\ fut[i].st = "done"
    /\ i \notin handled
    /\ LET r == fresult[i][1]
           job == jobs[i]
           results1 == DictSet(results, r.element_name, r.success)
           failed1 == IF r.success THEN failed_jobs
                      ELSE Append(failed_jobs, r.element_name)
       IN  /\ jobs' = IF executor_type = "thread" THEN jobs
                      ELSE [jobs EXCEPT ![i] = PopulateJob(job, r)]
           /\ IF progress_callback = "raises"
              THEN \* lines 301-304
                   /\ results' = DictSet(results1, job.element_name, FALSE)
                   /\ failed_jobs' = Append(failed1, job.element_name)
              ELSE /\ results' = results1
                   /\ failed_jobs' = failed1
    /\ handled' = handled \cup {i}
    /\ UNCHANGED <<executor_type, max_workers, stop_monitoring, progress_callback,
                   pc, submit_pos, job_index, fut, fresult, combined_file,
                   submitted, runs,
                   completed_order>>
    /\ record_writers' = IF executor_type = "thread" THEN record_writers
                       ELSE Wrote(record_writers, i, 0)
    /\ UNCHANGED <<genVars, moreVars, otherVars, file_log, database, monitor, progress_seen>>

\* lines 306-316: the executor is left, finally sets stop_monitoring, results returned
ReturnResults ==
    /\ pc = "collecting"
    /\ handled = JobIdx
    /\ stop_monitoring' = TRUE
    /\ pc' = "returned"
    /\ UNCHANGED <<executor_type, max_workers, jobs, progress_callback, submit_pos,
                   job_index, fut, fresult, handled, results, failed_jobs,
                   combined_file, submitted, runs,
                   completed_order>>
    /\ UNCHANGED <<genVars, moreVars, otherVars, auditVars>>

(***************************************************************************)
(* _monitor_progress, the daemon thread process_all_parallel starts.       *)
(***************************************************************************)
\* lines 197-203: the counts of one pass over self.jobs.values()
StatusCounts(js) ==
    [running   |-> Len(SelectSeq(js, LAMBDA job : job.status = "running")),
     completed |-> Len(SelectSeq(js, LAMBDA job : job.status = "completed")),
     failed    |-> Len(SelectSeq(js, LAMBDA job : job.status = "failed"))]

\* a loop that never looks at the flag
MonitorLoops_Forever(stop) == stop \/ ~stop

\* line 195: while not self.stop_monitoring
MonitorLoops(stop) == ~stop

\* lines 196-212: one turn of the loop, logging when a job has finished
MonitorTick ==
    /\ monitor = "running"
    /\ MonitorLoops(stop_monitoring)
    /\ LET counts == StatusCounts(jobs)
       IN  progress_seen' = IF counts.completed + counts.failed > 0 /\ Len(jobs) > 0
                            THEN Some(counts) ELSE progress_seen
    /\ UNCHANGED <<batchVars, genVars, moreVars, otherVars, file_log, record_writers, database,
                   monitor>>

\* line 195 found the flag set: the thread ends
MonitorExit ==
    /\ monitor = "running"
    /\ ~MonitorLoops(stop_monitoring)
    /\ monitor' = "stopped"
    /\ UNCHANGED <<batchVars, genVars, moreVars, otherVars, file_log, record_writers, database,
                   progress_seen>>

(***************************************************************************)
(* save_combined_materials, called by main after process_all_parallel.     *)
(***************************************************************************)
Reverse(q) == [k \in 1..Len(q) |-> q[Len(q) + 1 - k]]

\* the successful jobs taken in another order than self.jobs holds them
SuccessfulJobs_Reversed(js) ==
    Reverse(SelectSeq(js, LAMBDA job : job.status = "completed" /\ job.material_card # None))

\* line 320
SuccessfulJobs(js) ==
    SelectSeq(js, LAMBDA job : job.status = "completed" /\ job.material_card # None)

\* lines 332-336: one block per job, the element line and then its card
CardBlocks(js) ==
    [k \in 1..Len(js) |->
        [element |-> js[k].element_name, card |-> js[k].material_card[1]]]

save_combined_materials ==
    /\ pc = "returned"
    /\ combined_file' = IF SuccessfulJobs(jobs) = <<>> THEN combined_file
                        ELSE Some(CardBlocks(SuccessfulJobs(jobs)))
    /\ pc' = "saved"
    /\ UNCHANGED <<executor_type, max_workers, jobs, stop_monitoring,
                   progress_callback, submit_pos, job_index, fut, fresult, handled,
                   results, failed_jobs, submitted, runs,
                   completed_order>>
    /\ UNCHANGED <<genVars, moreVars, otherVars, auditVars>>

(***************************************************************************)
(* save_to_database, called by main when --save-db is given.               *)
(***************************************************************************)
\* lines 354-356: materials_data, one entry per successful job
MaterialsData(js) ==
    {[element_name |-> js[i].element_name, material_info |-> js[i].material_info[1]] :
        i \in {k \in 1..Len(js) :
                  js[k].status = "completed" /\ js[k].material_info # None}}

save_to_database ==
    /\ pc = "saved"
    /\ IF MaterialsData(jobs) = {}
       THEN UNCHANGED <<database, file_log>>
       ELSE \* the dummy parser loads the element cache; the database is written
            /\ database' = Some(MaterialsData(jobs))
            /\ file_log' = file_log \cup {FileAccess("element_cache", "read", 0, jobs),
                                          FileAccess("database", "write", 0, jobs)}
    /\ pc' = "db_saved"
    /\ UNCHANGED <<executor_type, max_workers, jobs, stop_monitoring,
                   progress_callback, submit_pos, job_index, fut, fresult, handled,
                   results, failed_jobs, combined_file, submitted, runs,
                   completed_order>>
    /\ UNCHANGED <<genVars, moreVars, otherVars, record_writers, monitor, progress_seen>>

(***************************************************************************)
(* main, lines 474-494: the optional summary file and the console tally.   *)
(***************************************************************************)
\* save_summary_json: the counts and the per-element entries
SummaryOf(js) ==
    [total_elements      |-> Len(js),
     successful_elements |-> Len(SelectSeq(js, LAMBDA job : job.status = "completed")),
     failed_elements     |-> Len(SelectSeq(js, LAMBDA job : job.status = "failed")),
     elements |-> {[element_name |-> js[i].element_name, status |-> js[i].status,
                    runtime_seconds |-> js[i].runtime_seconds,
                    error |-> js[i].error,
                    \* lines 382-389: only when the job has its material_info
                    material |->
                        IF js[i].material_info = None THEN None
                        ELSE Some([material_id |-> js[i].material_info[1].material_id,
                                   composition |->
                                       js[i].material_info[1].composition])] :
                      i \in 1..Len(js)}]

\* lines 474-475, taken when --summary is given
save_summary_json ==
    /\ pc \in {"saved", "db_saved"}
    /\ summary_json' = Some(SummaryOf(jobs))
    /\ pc' = "summarized"
    /\ UNCHANGED <<executor_type, max_workers, jobs, stop_monitoring,
                   progress_callback, submit_pos, job_index, fut, fresult, handled,
                   results, failed_jobs, combined_file, submitted, runs,
                   completed_order>>
    /\ UNCHANGED <<genVars, runVars, parseVars, regVars, interrupted_jobs, console,
                   auditVars, otherVars>>

\* lines 478-492: the counts main prints and the failed elements it lists
TallyOf(res, js) ==
    LET successful == Cardinality({n \in DOMAIN res : res[n]})
    IN  [total |-> Cardinality(DOMAIN res),
         successful |-> successful,
         failed |-> Cardinality(DOMAIN res) - successful,
         failed_elements |->
             {[element_name |-> n,
               error |-> js[CHOOSE i \in 1..Len(js) : js[i].element_name = n].error] :
                  n \in {m \in DOMAIN res : ~res[m]}}]

\* lines 477-494
FinalSummary ==
    /\ pc \in {"saved", "db_saved", "summarized"}
    /\ console' = Some(TallyOf(results, jobs))
    /\ pc' = "exited"
    /\ UNCHANGED <<executor_type, max_workers, jobs, stop_monitoring,
                   progress_callback, submit_pos, job_index, fut, fresult, handled,
                   results, failed_jobs, combined_file, submitted, runs,
                   completed_order>>
    /\ UNCHANGED <<genVars, runVars, parseVars, regVars, interrupted_jobs,
                   summary_json, auditVars, otherVars>>

NextBatch ==
    \/ add_element_files
    \/ RaiseNoJobs
    \/ StartProcessing
    \/ Submit
    \/ \E i \in JobIdx : Dequeue(i)
    \/ \E i \in JobIdx : StartElement(i)
    \/ \E i \in JobIdx : RunPipeline(i)
    \/ \E i \in JobIdx : CompleteElement(i)
    \/ \E i \in JobIdx : RecordError(i)
    \/ \E i \in JobIdx : RunInProcess(i)
    \/ \E i \in JobIdx : CollectResult(i)
    \/ ReturnResults
    \/ MonitorTick
    \/ MonitorExit
    \/ save_combined_materials
    \/ save_to_database
    \/ save_summary_json
    \/ FinalSummary

\* no parser call is in progress
IdleParser ==
    /\ available_isotopes = {}
    /\ element_cache = <<>>
    /\ df = <<>>
    /\ gen_out = None
    /\ nuclide_name = <<>>
    /\ zaid_out = None

Init == InitBatch /\ IdleParser /\ IdleMore
Next == NextBatch
Spec == Init /\ [][Next]_vars

(***************************************************************************)
(* Properties of the batch orchestrator.                                   *)
(***************************************************************************)
Returned == pc \in {"returned", "saved", "db_saved", "summarized", "exited"}

JobNamed(name) == jobs[CHOOSE i \in JobIdx : jobs[i].element_name = name]

\* position of an element name in the submit history, counted from 0
SubmitIndex(name) == (CHOOSE k \in 1..Len(submitted) : submitted[k] = name) - 1

StatusStep(a, b) ==
    \/ a = b
    \/ a = "not_started" /\ b = "running"
    \/ a = "running" /\ b \in {"completed", "failed"}

\* C1: every change of a job's status follows not_started -> running -> completed
\* or not_started -> running -> failed, a completed or failed job keeps its status,
\* and no job is submitted or run twice, under the thread and the process executor.
C1_StatusPath ==
    [][\A i \in JobIdx :
          /\ StatusStep(jobs[i].status, jobs'[i].status)
          /\ runs'[i] <= 1
          /\ Cardinality({k \in 1..Len(submitted') :
                              submitted'[k] = jobs[i].element_name}) <= 1]_vars

\* C2: when the batch has returned, every job is completed or failed and has an
\* entry in results, and a job whose pipeline raised is failed, has its error text
\* recorded and is reported unsuccessful; the batch never stops short of returning.
C2_FailureIsLocal ==
    /\ pc \in {"submitting", "collecting"} => ENABLED NextBatch
    /\ Returned =>
          \A i \in JobIdx :
              /\ jobs[i].status \in {"completed", "failed"}
              /\ jobs[i].element_name \in DOMAIN results
              /\ PipelineRaises(jobs[i].element_file) =>
                    /\ jobs[i].status = "failed"
                    /\ jobs[i].error # None
                    /\ results[jobs[i].element_name] = FALSE

\* a batch that returned with a job that failed first and another that completed
C2_Witness ==
    /\ pc = "returned"
    /\ \E i, k \in JobIdx :
          /\ jobs[i].status = "failed" /\ jobs[i].error # None
          /\ completed_order[1] = jobs[i].element_name
          /\ jobs[k].status = "completed"
          /\ results[jobs[k].element_name] = TRUE

Malformed == {i \in JobIdx : jobs[i].element_file.kind = "malformed"}

\* C3: when the batch has returned for N files of which K are malformed, exactly K
\* jobs are failed and exactly N-K are completed.
C3_ExactTally ==
    Returned =>
        /\ Cardinality({i \in JobIdx : jobs[i].status = "failed"})
              = Cardinality(Malformed)
        /\ Cardinality({i \in JobIdx : jobs[i].status = "completed"})
              = Len(jobs) - Cardinality(Malformed)

\* three files, one of them malformed, processed to the end
C3_Witness ==
    /\ pc = "returned"
    /\ Len(jobs) = 3
    /\ Cardinality(Malformed) = 1
    /\ Cardinality({i \in JobIdx : jobs[i].status = "failed"}) = 1

\* C4: the combined file holds one block per completed job and none for a failed
\* job, in the order the jobs were submitted, with each job's own card.
C4_BlocksInSubmissionOrder ==
    pc = "saved" =>
        LET done == SelectSeq(submitted,
                        LAMBDA n : JobNamed(n).status = "completed")
        IN  IF done = <<>> THEN combined_file = None
            ELSE /\ combined_file # None
                 /\ Len(combined_file[1]) = Len(done)
                 /\ \A k \in 1..Len(done) :
                       /\ combined_file[1][k].element = done[k]
                       /\ combined_file[1][k].card = JobNamed(done[k]).material_card[1]

\* two blocks written although the later job completed first, next to a failed job
C4_Witness ==
    /\ pc = "saved"
    /\ combined_file # None
    /\ Len(combined_file[1]) = 2
    /\ \E i \in JobIdx : jobs[i].status = "failed"
    /\ \E a, b \in 1..Len(completed_order) :
          /\ a < b
          /\ completed_order[a] = combined_file[1][2].element
          /\ completed_order[b] = combined_file[1][1].element

\* C5: a job's material ID is 200 plus its submission index, in the job's info, in
\* its card and in the tuple a worker process returns; so no two jobs share an ID.
C5_MaterialIdBySubmission ==
    \A i \in JobIdx :
        LET id == 200 + SubmitIndex(jobs[i].element_name)
        IN  /\ jobs[i].material_info # None =>
                  /\ jobs[i].material_info[1].material_id = id
                  /\ jobs[i].material_card[1].material_id = id
                  /\ \A k \in JobIdx \ {i} :
                        jobs[k].material_info # None =>
                            jobs[k].material_info[1].material_id
                                # jobs[i].material_info[1].material_id
            /\ (fresult[i] # None /\ fresult[i][1].material_info # None) =>
                  fresult[i][1].material_info[1].material_id = id

\* two jobs hold their IDs although the later one was completed first
C5_Witness ==
    \E i, k \in JobIdx :
        /\ i < k
        /\ jobs[i].material_info # None /\ jobs[k].material_info # None
        /\ jobs[i].material_info[1].material_id = 200 + i - 1
        /\ jobs[k].material_info[1].material_id = 200 + k - 1
        /\ Len(completed_order) >= 2
        /\ completed_order[1] = jobs[k].element_name
        /\ completed_order[2] = jobs[i].element_name

(***************************************************************************)
(* Strings are sequences of one-character strings; the str methods         *)
(* nuclide_to_zaid uses.                                                   *)
(***************************************************************************)
Digits == <<"0", "1", "2", "3", "4", "5", "6", "7", "8", "9">>

\* str.isdigit on one character
IsDigit(c) == \E d \in 1..10 : Digits[d] = c

DigitValue(c) == (CHOOSE d \in 1..10 : Digits[d] = c) - 1

\* the letters of the names the model draws, upper case and lower case
Letters == {<<"A", "a">>, <<"E", "e">>, <<"H", "h">>, <<"L", "l">>, <<"M", "m">>,
            <<"N", "n">>, <<"O", "o">>, <<"P", "p">>, <<"S", "s">>, <<"T", "t">>,
            <<"U", "u">>, <<"X", "x">>, <<"Z", "z">>}

ToUpper(c) == IF \E l \in Letters : l[2] = c
              THEN (CHOOSE l \in Letters : l[2] = c)[1] ELSE c

ToLower(c) == IF \E l \in Letters : l[1] = c
              THEN (CHOOSE l \in Letters : l[1] = c)[2] ELSE c

\* str.capitalize
Capitalize(str) ==
    [k \in 1..Len(str) |-> IF k = 1 THEN ToUpper(str[k]) ELSE ToLower(str[k])]

RECURSIVE Strip(_)
\* str.strip
Strip(str) ==
    IF str = <<>> THEN str
    ELSE IF Head(str) = " " THEN Strip(Tail(str))
    ELSE IF str[Len(str)] = " " THEN Strip(SubSeq(str, 1, Len(str) - 1))
    ELSE str

RECURSIVE SplitName(_)
\* re.split(r'[-_]', nuclide_name)
SplitName(str) ==
    IF \E k \in 1..Len(str) : str[k] \in {"-", "_"}
    THEN LET k == CHOOSE j \in 1..Len(str) :
                     /\ str[j] \in {"-", "_"}
                     /\ \A h \in 1..(j - 1) : str[h] \notin {"-", "_"}
         IN  <<SubSeq(str, 1, k - 1)>> \o SplitName(SubSeq(str, k + 1, Len(str)))
    ELSE <<str>>

\* ''.join(filter(str.isdigit, mass_part))
DigitsOf(str) == SelectSeq(str, IsDigit)

RECURSIVE ParseInt(_)
\* int(mass_digits) for a non-empty string of digits
ParseInt(ds) ==
    IF ds = <<>> THEN 0
    ELSE 10 * ParseInt(SubSeq(ds, 1, Len(ds) - 1)) + DigitValue(ds[Len(ds)])

\* mass_part.endswith('m') taken for both letter cases
EndsWithM_AnyCase(str) == str # <<>> /\ str[Len(str)] \in {"m", "M"}

\* mass_part.endswith('m')
EndsWithM(str) == str # <<>> /\ str[Len(str)] = "m"

(***************************************************************************)
(* mendeleev's element(name).atomic_number, for the elements of the model: *)
(* any other name raises.                                                  *)
(***************************************************************************)
PeriodicTable == {<<<<"H">>, 1>>, <<<<"H", "e">>, 2>>, <<<<"X", "e">>, 54>>,
                  <<<<"U">>, 92>>, <<<<"P", "u">>, 94>>, <<<<"A", "m">>, 95>>}

KnownElement(element_name) == \E e \in PeriodicTable : e[1] = element_name

AtomicNumber(element_name) == (CHOOSE e \in PeriodicTable : e[1] = element_name)[2]

\* a lookup that caches another number than the one it returns
get_atomic_number_CachesOther(element_name, cache) ==
    IF element_name \in DOMAIN cache
    THEN [z |-> Some(cache[element_name]), cache |-> cache]
    ELSE IF KnownElement(element_name)
    THEN [z |-> Some(AtomicNumber(element_name)),
          cache |-> DictSet(cache, element_name, AtomicNumber(element_name) + 1)]
    ELSE [z |-> None, cache |-> cache]

\* get_atomic_number: the atomic number (None when the lookup raises) and the cache after
get_atomic_number(element_name, cache) ==
    IF element_name \in DOMAIN cache
    THEN [z |-> Some(cache[element_name]), cache |-> cache]
    ELSE IF KnownElement(element_name)
    THEN [z |-> Some(AtomicNumber(element_name)),
          cache |-> DictSet(cache, element_name, AtomicNumber(element_name))]
    ELSE [z |-> None, cache |-> cache]

\* nuclide_to_zaid: the ZAID (None for the caught exceptions) and the cache after
nuclide_to_zaid(name, cache) ==
    LET parts == SplitName(name)
    IN  IF Len(parts) # 2
        THEN [zaid |-> None, cache |-> cache]      \* the unpacking raises ValueError
        ELSE
        LET element_name == Capitalize(Strip(parts[1]))
            mass_part == parts[2]
            looked == get_atomic_number(element_name, cache)
            mass_digits == DigitsOf(mass_part)
        IN  IF looked.z = None
            THEN [zaid |-> None, cache |-> looked.cache]
            ELSE IF mass_digits = <<>>
            THEN [zaid |-> None, cache |-> looked.cache]   \* int('') raises ValueError
            ELSE
            LET z == looked.z[1]
                a == ParseInt(mass_digits)
                zaid == IF EndsWithM(mass_part) THEN z * 1000 + a + 400
                        ELSE z * 1000 + a
            IN  IF element_name = <<"A", "m">> /\ a = 242
                THEN [zaid |-> IF EndsWithM(mass_part) THEN Some(95242) ELSE Some(95642),
                      cache |-> looked.cache]
                ELSE [zaid |-> Some(zaid), cache |-> looked.cache]

(***************************************************************************)
(* The names and caches nuclide_to_zaid is tried on.                       *)
(***************************************************************************)
ElementParts == {<<"U">>, <<"u">>, <<"A", "m">>, <<"a", "m">>, <<"A", "M">>,
                 <<"X", "e">>, <<"x", "e">>, <<"H", "e">>, <<"P", "u">>,
                 <<"Z", "z">>, <<" ", "U">>, <<>>}

MassNumbers == {<<"4">>, <<"1", "3", "5">>, <<"2", "3", "5">>, <<"2", "4", "2">>}

MassParts == {a \o sfx : a \in MassNumbers, sfx \in {<<>>, <<"m">>, <<"M">>}}
                 \cup {<<>>, <<"m">>}

NuclideNames ==
    {el \o <<sep>> \o mp : el \in ElementParts, sep \in {"-", "_"}, mp \in MassParts}
        \cup {<<"U", "2", "3", "5">>, <<"U", "-", "2", "3", "5", "-", "m">>}

\* load_element_cache: no cache file, or the cache an earlier run saved
SavedCaches ==
    {<<>>,
     [e \in {<<"U">>} |-> 92],
     [e \in {<<"A", "m">>, <<"X", "e">>} |-> IF e = <<"X", "e">> THEN 54 ELSE 95]}

\* no batch is configured
IdleBatch ==
    /\ executor_type = "thread"
    /\ max_workers = 1
    /\ jobs = <<>>
    /\ stop_monitoring = FALSE
    /\ progress_callback = "none"
    /\ pc = "constructed"
    /\ submit_pos = 1
    /\ job_index = 0
    /\ fut = <<>>
    /\ fresult = <<>>
    /\ handled = {}
    /\ results = <<>>
    /\ failed_jobs = <<>>
    /\ combined_file = None
    /\ submitted = <<>>
    /\ runs = <<>>
    /\ completed_order = <<>>
    /\ IdleAudit

InitZaid ==
    /\ IdleBatch
    /\ IdleOther
    /\ IdleMore
    /\ available_isotopes = {}
    /\ element_cache \in SavedCaches
    /\ df = <<>>
    /\ gen_out = None
    /\ nuclide_name \in NuclideNames
    /\ zaid_out = None

\* one call of parser.nuclide_to_zaid(nuclide_name)
CallNuclideToZaid ==
    /\ zaid_out = None
    /\ LET r == nuclide_to_zaid(nuclide_name, element_cache)
       IN  /\ zaid_out' = Some(r.zaid)
           /\ element_cache' = r.cache
    /\ UNCHANGED <<available_isotopes, df, gen_out, nuclide_name>>
    /\ UNCHANGED <<batchVars, moreVars, auditVars, otherVars>>

NextZaid == CallNuclideToZaid

SpecZaid == InitZaid /\ [][NextZaid]_vars

(***************************************************************************)
(* Properties of the ZAID derivation.                                      *)
(***************************************************************************)
\* the name is 'El-A', 'El-Am' or 'El-AM' (either separator) with a resolvable element
WellFormedName(name) ==
    /\ Len(SplitName(name)) = 2
    /\ KnownElement(Capitalize(Strip(SplitName(name)[1])))
    /\ LET mp == SplitName(name)[2]
       IN  \E a \in MassNumbers : mp \in {a, a \o <<"m">>, a \o <<"M">>}

\* the ZAID the rule of the specification gives a well-formed name
RuleZaid(name, metastable) ==
    LET el == Capitalize(Strip(SplitName(name)[1]))
        a == ParseInt(DigitsOf(SplitName(name)[2]))
    IN  IF el = <<"A", "m">> /\ a = 242
        THEN (IF metastable THEN 95242 ELSE 95642)
        ELSE AtomicNumber(el) * 1000 + a + (IF metastable THEN 400 ELSE 0)

\* C10: for a name 'El-A' with a resolvable element the result is z*1000 + A, and 400
\* more when the mass part ends in 'm' or 'M', except Am-242 -> 95642 and
\* Am-242m -> 95242.
C10_ZaidRule ==
    (zaid_out # None /\ WellFormedName(nuclide_name)) =>
        zaid_out[1] = Some(RuleZaid(nuclide_name,
                                    EndsWithM_AnyCase(SplitName(nuclide_name)[2])))

\* the same rule with only a lower-case 'm' marking the metastable state
C10_ZaidRuleLowerCase ==
    (zaid_out # None /\ WellFormedName(nuclide_name)) =>
        zaid_out[1] = Some(RuleZaid(nuclide_name,
                                    EndsWithM(SplitName(nuclide_name)[2])))

(***************************************************************************)
(* generate_mcnp_materials.  A mass is a whole number of mass quanta; a    *)
(* weight fraction is the exact quotient num/den, and a quotient with      *)
(* den = 0 is the NaN or infinity numpy's float64 division returns.        *)
(***************************************************************************)
\* self.helium_zaid
helium_zaid == 2004

\* 1e-9, the negligible-fraction cutoff of line 312, as 1/MinFractionInverse
MinFractionInverse == 1000000000

\* the default volume of generate_mcnp_materials, in whole cm3
DefaultVolume == 18

RECURSIVE SumMass(_)
\* df['Mass'].sum()
SumMass(rows) ==
    IF rows = <<>> THEN 0
    ELSE IF Len(rows) = 1 THEN rows[1].Mass
    ELSE LET h == Len(rows) \div 2
         IN  SumMass(SubSeq(rows, 1, h)) + SumMass(SubSeq(rows, h + 1, Len(rows)))

\* mass / total_mass
Quotient(mass, total) == [num |-> mass, den |-> total]

IsFiniteQ(q) == q.den # 0

\* an availability check that lets every isotope through
is_isotope_available_Always(zaid, isotopes) == TRUE

\* is_isotope_available
is_isotope_available(zaid, isotopes) ==
    IF isotopes = {} THEN TRUE ELSE zaid \in isotopes

\* the cutoff 1e-6 of the simple parser in place of 1e-9
BelowThreshold_Simple(q) ==
    IF q.den = 0 THEN FALSE ELSE q.num <= (q.den - 1) \div 1000000

\* weight_fraction < 1e-9 (never true of NaN or infinity)
BelowThreshold(q) ==
    IF q.den = 0 THEN FALSE ELSE q.num <= (q.den - 1) \div MinFractionInverse

\* lines 316-320: fractions of one ZAID add up
AddFraction(processed, zaid, q) ==
    IF zaid \in DOMAIN processed
    THEN [processed EXCEPT ![zaid] = [num |-> @.num + q.num, den |-> q.den]]
    ELSE DictSet(processed, zaid, q)

\* a helium entry that replaces the entry ZAID 2004 already has
AddHelium_Overwrites(processed, helium_mass, total) ==
    IF helium_mass > 0
    THEN DictSet(processed, helium_zaid, Quotient(helium_mass, total))
    ELSE processed

\* lines 323-325
AddHelium(processed, helium_mass, total) ==
    IF helium_mass > 0
    THEN AddFraction(processed, helium_zaid, Quotient(helium_mass, total))
    ELSE processed

\* a loop body that skips an underivable nuclide without keeping its mass
ProcessRow_DropsUnderivable(row, total, isotopes, acc) ==
    LET conv == nuclide_to_zaid(row.Nuclide, acc.cache)
        q == Quotient(row.Mass, total)
    IN  IF conv.zaid = None
        THEN [acc EXCEPT !.cache = conv.cache]
        ELSE IF ~is_isotope_available(conv.zaid[1], isotopes)
        THEN [acc EXCEPT !.helium_mass = @ + row.Mass, !.cache = conv.cache]
        ELSE IF BelowThreshold(q)
        THEN [acc EXCEPT !.cache = conv.cache]
        ELSE [acc EXCEPT !.processed = AddFraction(@, conv.zaid[1], q),
                         !.cache = conv.cache]

\* lines 292-320: one turn of the loop over df.iterrows(), on
\* acc = [processed, helium_mass, cache]
ProcessRow(row, total, isotopes, acc) ==
    LET conv == nuclide_to_zaid(row.Nuclide, acc.cache)
        q == Quotient(row.Mass, total)
    IN  IF conv.zaid = None
        THEN [acc EXCEPT !.helium_mass = @ + row.Mass, !.cache = conv.cache]
        ELSE IF ~is_isotope_available(conv.zaid[1], isotopes)
        THEN [acc EXCEPT !.helium_mass = @ + row.Mass, !.cache = conv.cache]
        ELSE IF BelowThreshold(q)
        THEN [acc EXCEPT !.cache = conv.cache]
        ELSE [acc EXCEPT !.processed = AddFraction(@, conv.zaid[1], q),
                         !.cache = conv.cache]

RECURSIVE ProcessRows(_, _, _, _)
\* line 291: the loop over the rows in order (the rows of the first half, then
\* those of the second half, which is the same left-to-right pass; helium_mass is
\* never negative, the test on it only makes the first half be evaluated first)
ProcessRows(rows, total, isotopes, acc) ==
    IF rows = <<>> THEN acc
    ELSE IF Len(rows) = 1 THEN ProcessRow(rows[1], total, isotopes, acc)
    ELSE LET h == Len(rows) \div 2
             first == ProcessRows(SubSeq(rows, 1, h), total, isotopes, acc)
         IN  IF first.helium_mass < 0 THEN first
             ELSE ProcessRows(SubSeq(rows, h + 1, Len(rows)), total, isotopes, first)

\* lines 335-341: the material line and one line per ZAID in ascending order
CardLines(material_id, processed) ==
    [material_id |-> material_id,
     lines |-> [k \in 1..Cardinality(DOMAIN processed) |->
                   [zaid |-> SortedSeq(DOMAIN processed)[k],
                    fraction |-> processed[SortedSeq(DOMAIN processed)[k]]]]]

\* generate_mcnp_materials: what it returns, or that it raised, and the cache after
generate_mcnp_materials(rows, material_id, volume, isotopes, cache) ==
    IF rows = <<>>
    THEN \* df['TimeColumn'].iloc[0] raises on a frame without rows
         [raised |-> TRUE, total_mass_g |-> 0, density_g_cm3 |-> Quotient(0, volume),
          helium_mass_g |-> 0, processed_zaids |-> <<>>,
          material_card |-> CardLines(material_id, <<>>), cache |-> cache]
    ELSE
    LET total_mass == SumMass(rows)
        done == ProcessRows(rows, total_mass, isotopes,
                            [processed |-> <<>>, helium_mass |-> 0, cache |-> cache])
        processed_zaids == AddHelium(done.processed, done.helium_mass, total_mass)
    IN  [raised |-> FALSE, total_mass_g |-> total_mass,
         density_g_cm3 |-> Quotient(total_mass, volume),
         helium_mass_g |-> done.helium_mass,
         processed_zaids |-> processed_zaids,
         material_card |-> CardLines(material_id, processed_zaids),
         cache |-> done.cache]

(***************************************************************************)
(* The tables, availability sets and caches generate_mcnp_materials is     *)
(* tried on.                                                               *)
(***************************************************************************)
\* U-235 and u_235 share a ZAID, He-4 has the surrogate's ZAID, Zz is no element
TableNames == {<<"U", "-", "2", "3", "5">>, <<"u", "_", "2", "3", "5">>,
               <<"X", "e", "-", "1", "3", "5", "m">>, <<"H", "e", "-", "4">>,
               <<"Z", "z", "-", "4">>}

DistinctNames(t) == \A i, k \in 1..Len(t) : i # k => t[i].Nuclide # t[k].Nuclide

TablesOver(masses, lengths) ==
    {t \in UNION {[1..n -> [Nuclide : TableNames, Mass : masses]] : n \in lengths} :
         DistinctNames(t)}

\* tables as parse_all_sections returns them: at least one row, one row per
\* name, every mass above the 1e-12 floor of the extraction
PipelineTables ==
    {t \in TablesOver({1, 2, BigMass}, 1..MaxRows) :
         Cardinality({i \in 1..Len(t) : t[i].Mass = BigMass}) <= 1}

\* any table a caller may hand over, the empty one and zero masses included
AnyTables == TablesOver({0, 1}, 0..MaxRows)

WideSymbols == <<<<"H">>, <<"H", "e">>, <<"X", "e">>, <<"U">>, <<"P", "u">>, <<"A", "m">>>>

RECURSIVE ToDigits(_)
\* str(n) for n >= 0
ToDigits(n) ==
    IF n < 10 THEN <<Digits[n + 1]>>
    ELSE ToDigits(n \div 10) \o <<Digits[(n % 10) + 1]>>

\* one dominant nuclide and WideRows trace nuclides of one quantum each
WideTable ==
    <<[Nuclide |-> <<"U", "-", "2", "3", "8">>, Mass |-> BigMass]>> \o
    [k \in 1..WideRows |->
        [Nuclide |-> WideSymbols[((k - 1) % 6) + 1] \o <<"-">>
                        \o ToDigits(((k - 1) \div 6) + 1),
         Mass |-> 1]]

AvailabilitySets == SUBSET {2004, 54535, 92235, 94239}

InitGen ==
    /\ IdleBatch
    /\ IdleOther
    /\ IdleMore
    /\ available_isotopes \in AvailabilitySets
    /\ element_cache \in SavedCaches
    /\ df \in PipelineTables \cup {WideTable}
    /\ gen_out = None
    /\ nuclide_name = <<>>
    /\ zaid_out = None

InitGenAny ==
    /\ IdleBatch
    /\ IdleOther
    /\ IdleMore
    /\ available_isotopes \in AvailabilitySets
    /\ element_cache \in SavedCaches
    /\ df \in AnyTables
    /\ gen_out = None
    /\ nuclide_name = <<>>
    /\ zaid_out = None

\* one call of parser.generate_mcnp_materials(df)
CallGenerate ==
    /\ gen_out = None
    /\ LET r == generate_mcnp_materials(df, 200, DefaultVolume,
                                        available_isotopes, element_cache)
       IN  /\ gen_out' = Some([raised |-> r.raised,
                               total_mass_g |-> r.total_mass_g,
                               density_g_cm3 |-> r.density_g_cm3,
                               helium_mass_g |-> r.helium_mass_g,
                               processed_zaids |-> r.processed_zaids,
                               material_card |-> r.material_card])
           /\ element_cache' = r.cache
    /\ UNCHANGED <<available_isotopes, df, nuclide_name, zaid_out>>
    /\ UNCHANGED <<batchVars, moreVars, auditVars, otherVars>>

NextGen == CallGenerate

SpecGen == InitGen /\ [][NextGen]_vars

SpecGenAny == InitGenAny /\ [][NextGen]_vars

(***************************************************************************)
(* Properties of the material card generator.                              *)
(***************************************************************************)
Returned_Gen == gen_out # None /\ ~gen_out[1].raised

\* the ZAID of row k of df (None when it cannot be derived)
RowZaid(k) == nuclide_to_zaid(df[k].Nuclide, <<>>).zaid

\* rows whose ZAID cannot be derived or is not in a non-empty availability set
ExcludedRows ==
    {k \in 1..Len(df) :
        \/ RowZaid(k) = None
        \/ available_isotopes # {} /\ RowZaid(k)[1] \notin available_isotopes}

\* rows that are representable and whose fraction mass/total is below 1e-9
DroppedRows ==
    {k \in 1..Len(df) \ ExcludedRows : df[k].Mass <= (SumMass(df) - 1) \div (10^9)}

RowsOfZaid(zaid) == {k \in 1..Len(df) : RowZaid(k) = Some(zaid)}

MassOf(K) == SumMass([k \in 1..Len(df) |-> [Mass |-> IF k \in K THEN df[k].Mass ELSE 0]])

\* the numerators of all emitted fractions, over the common denominator total_mass
EmittedMass ==
    LET p == gen_out[1].processed_zaids
    IN  SumMass([k \in 1..Cardinality(DOMAIN p) |->
                    [Mass |-> p[SortedSeq(DOMAIN p)[k]].num]])

\* |sum of the emitted fractions - 1.0| <= 1e-6
SumWithinTolerance ==
    /\ \A z \in DOMAIN gen_out[1].processed_zaids :
           IsFiniteQ(gen_out[1].processed_zaids[z])
    /\ LET total == gen_out[1].total_mass_g
           diff == IF EmittedMass > total THEN EmittedMass - total
                   ELSE total - EmittedMass
       IN  diff <= total \div (10^6)

\* C6 as stated: the emitted fractions, the surrogate entry included, sum to 1.0
\* within 1e-6 for every table.
C6_FractionsSumToOne == Returned_Gen => SumWithinTolerance

\* C6 amended: the emitted fractions and the fractions of the nuclides dropped for
\* being below 1e-9 sum to exactly 1.0; every dropped fraction is below 1e-9, so the
\* emitted sum is within 1e-6 of 1.0 when at most 1000 nuclides were dropped.
C6_EmittedPlusDroppedIsOne ==
    Returned_Gen =>
        /\ gen_out[1].total_mass_g = SumMass(df)
        /\ EmittedMass + MassOf(DroppedRows) = SumMass(df)
        /\ Cardinality(DroppedRows) <= 1000 => SumWithinTolerance

\* a card with a surrogate entry, made from a table one of whose nuclides was dropped
C6_Witness ==
    /\ Returned_Gen
    /\ DroppedRows # {}
    /\ ExcludedRows # {}
    /\ helium_zaid \in DOMAIN gen_out[1].processed_zaids
    /\ Len(df) <= MaxRows

\* C7: with a non-empty availability set every ZAID of the fraction table, and of
\* the card's lines, is a member of the set or is the surrogate ZAID 2004.
C7_KeysAvailableOrSurrogate ==
    (Returned_Gen /\ available_isotopes # {}) =>
        /\ DOMAIN gen_out[1].processed_zaids \subseteq available_isotopes \cup {helium_zaid}
        /\ \A k \in 1..Len(gen_out[1].material_card.lines) :
               gen_out[1].material_card.lines[k].zaid
                   \in available_isotopes \cup {helium_zaid}

\* a card made under a non-empty set that excludes one nuclide and admits another
C7_Witness ==
    /\ Returned_Gen
    /\ available_isotopes # {}
    /\ \E k \in 1..Len(df) :
           RowZaid(k) # None /\ RowZaid(k)[1] \notin available_isotopes
    /\ \E z \in DOMAIN gen_out[1].processed_zaids : z # helium_zaid

\* rows whose ZAID is derived and is missing from a non-empty availability set
RowsExcludedBySet ==
    {k \in 1..Len(df) :
        /\ RowZaid(k) # None
        /\ available_isotopes # {}
        /\ RowZaid(k)[1] \notin available_isotopes}

\* representable rows of one ZAID whose fraction is not below 1e-9
KeptRows(zaid) == (RowsOfZaid(zaid) \ ExcludedRows) \ DroppedRows

\* no excluded nuclide shows under its own ZAID (other than the surrogate's)
ExcludedAbsent ==
    \A k \in ExcludedRows :
        (RowZaid(k) # None /\ RowZaid(k)[1] # helium_zaid) =>
            RowZaid(k)[1] \notin DOMAIN gen_out[1].processed_zaids

\* C8 as stated: when the set excludes ZAIDs of the table, the excluded and the
\* underivable nuclides are absent from their own entries and the surrogate entry
\* equals their combined mass over total_mass.
C8_SurrogateIsExcludedMass ==
    (Returned_Gen /\ RowsExcludedBySet # {}) =>
        /\ ExcludedAbsent
        /\ helium_zaid \in DOMAIN gen_out[1].processed_zaids
        /\ gen_out[1].processed_zaids[helium_zaid]
               = Quotient(MassOf(ExcludedRows), SumMass(df))

\* C8 amended: the surrogate entry equals the combined mass of the excluded and the
\* underivable nuclides over total_mass plus the fractions of the available
\* nuclides that have ZAID 2004 themselves (He-4) and are not below the 1e-9 cutoff.
C8_SurrogateIsExcludedPlusHelium ==
    (Returned_Gen /\ RowsExcludedBySet # {}) =>
        /\ ExcludedAbsent
        /\ gen_out[1].helium_mass_g = MassOf(ExcludedRows)
        /\ helium_zaid \in DOMAIN gen_out[1].processed_zaids
        /\ gen_out[1].processed_zaids[helium_zaid]
               = Quotient(MassOf(ExcludedRows) + MassOf(KeptRows(helium_zaid)),
                          SumMass(df))

\* the set admits He-4 and excludes another nuclide of the table
C8_Witness ==
    /\ Returned_Gen
    /\ RowsExcludedBySet # {}
    /\ KeptRows(helium_zaid) # {}
    /\ gen_out[1].helium_mass_g > 0

\* C9: a table whose total mass is 0, the empty table included, makes the
\* generation fail; no composition with a NaN or infinite fraction or density is
\* returned.
C9_ZeroMassFails ==
    (gen_out # None /\ SumMass(df) = 0) =>
        /\ gen_out[1].raised
        /\ IsFiniteQ(gen_out[1].density_g_cm3)
        /\ \A z \in DOMAIN gen_out[1].processed_zaids :
               IsFiniteQ(gen_out[1].processed_zaids[z])

\* the empty table does fail
C9_EmptyTableFails == (gen_out # None /\ df = <<>>) => gen_out[1].raised

(***************************************************************************)
(* generate_mcnp_materials on tables that hold names nuclide_to_zaid       *)
(* cannot convert.                                                         *)
(***************************************************************************)
\* no separator, three parts, no mass digits, no such element, and two good names
OddNames == {<<"U", "2", "3", "5">>, <<"U", "-", "2", "3", "5", "-", "m">>,
             <<"U", "-", "m">>, <<"Z", "z", "-", "4">>,
             <<"U", "-", "2", "3", "5">>, <<"X", "e", "-", "1", "3", "5", "m">>}

OddTables ==
    {t \in UNION {[1..n -> [Nuclide : OddNames, Mass : {1, 2}]] : n \in 1..MaxRows} :
         DistinctNames(t)}

InitGenOdd ==
    /\ IdleBatch
    /\ IdleOther
    /\ IdleMore
    /\ available_isotopes \in AvailabilitySets
    /\ element_cache \in SavedCaches
    /\ df \in OddTables
    /\ gen_out = None
    /\ nuclide_name = <<>>
    /\ zaid_out = None

SpecGenOdd == InitGenOdd /\ [][NextGen]_vars

\* the name has not exactly two parts, or no digit in its mass part, or its element
\* is not one mendeleev resolves
Unconvertible(name) ==
    \/ Len(SplitName(name)) # 2
    \/ DigitsOf(SplitName(name)[2]) = <<>>
    \/ ~KnownElement(Capitalize(Strip(SplitName(name)[1])))

\* C11: nuclide_to_zaid returns None for a name that does not split in two, has no
\* mass digits or no resolvable element; generate_mcnp_materials does not raise on
\* it, adds the nuclide's whole mass to helium_mass and still processes every
\* other nuclide of the table.
C11_UnconvertibleGoesToSurrogate ==
    gen_out # None =>
        /\ ~gen_out[1].raised
        /\ \A k \in 1..Len(df) : Unconvertible(df[k].Nuclide) <=> RowZaid(k) = None
        /\ gen_out[1].helium_mass_g = MassOf(ExcludedRows)
        /\ \A k \in 1..Len(df) :
               k \notin ExcludedRows =>
                   /\ RowZaid(k)[1] \in DOMAIN gen_out[1].processed_zaids
                   /\ gen_out[1].processed_zaids[RowZaid(k)[1]].num >= df[k].Mass

\* a table with an unconvertible name before a convertible one that is kept
C11_Witness ==
    /\ Returned_Gen
    /\ Len(df) = 2
    /\ Unconvertible(df[1].Nuclide)
    /\ 2 \notin ExcludedRows
    /\ gen_out[1].helium_mass_g = df[1].Mass

(***************************************************************************)
(* One run of a parser: nuclide_to_zaid called again and again, in any     *)
(* order, on the element cache the calls before left behind.               *)
(***************************************************************************)
\* largest number of calls of one run
MaxCalls == 3

RunNames == {<<"U", "-", "2", "3", "5">>, <<"u", "_", "2", "3", "8">>,
             <<"U", "-", "2", "3", "5", "m">>, <<"X", "e", "-", "1", "3", "5">>,
             <<"Z", "z", "-", "4">>, <<"U", "2", "3", "5">>}

\* load_element_cache returns whatever dict the cache file holds: the caches an
\* earlier run saved, and a file some other tool wrote
RunCaches == SavedCaches \cup {[e \in {<<"U">>, <<"Z", "z">>} |-> 93]}

InitZaidRun ==
    /\ IdleBatch
    /\ IdleOther
    /\ available_isotopes = {}
    /\ element_cache \in RunCaches
    /\ df = <<>>
    /\ gen_out = None
    /\ nuclide_name = <<>>
    /\ zaid_out = None
    /\ zaid_log = <<>>
    /\ IdleParse
    /\ IdleRegistry
    /\ IdleMain

\* one more call of parser.nuclide_to_zaid(name) in the run
CallInRun ==
    /\ Len(zaid_log) < MaxCalls
    /\ \E name \in RunNames :
           LET r == nuclide_to_zaid(name, element_cache)
           IN  /\ zaid_log' = Append(zaid_log, [name |-> name, zaid |-> r.zaid])
               /\ element_cache' = r.cache
               /\ nuclide_name' = name
               /\ zaid_out' = Some(r.zaid)
    /\ UNCHANGED <<available_isotopes, df, gen_out>>
    /\ UNCHANGED <<batchVars, parseVars, regVars, mainVars, auditVars, otherVars>>

NextZaidRun == CallInRun

SpecZaidRun == InitZaidRun /\ [][NextZaidRun]_vars

\* C12: in one run every call of nuclide_to_zaid with the same name returns the
\* same ZAID, or None every time, whatever was called in between and whatever the
\* cache held at the start.
C12_SameNameSameZaid ==
    \A i, k \in 1..Len(zaid_log) :
        zaid_log[i].name = zaid_log[k].name => zaid_log[i].zaid = zaid_log[k].zaid

\* a name converted from mendeleev first and from the cache afterwards, with a call
\* for another name of the same element in between
C12_Witness ==
    /\ Len(zaid_log) = 3
    /\ zaid_log[1].name = zaid_log[3].name
    /\ zaid_log[1].name # zaid_log[2].name
    /\ zaid_log[1].zaid = Some(92235)
    /\ zaid_log[2].zaid = Some(92238)

(***************************************************************************)
(* parse_all_sections.  The output text is the sequence of its section     *)
(* blocks in text order; a block is the section header of one case and one *)
(* subsection followed by what stands under it.  Subsection 1 is the full  *)
(* table, whose header is also the case label find_all_cases looks for, 2  *)
(* the light elements, 3 the actinides, 4 the fission products.            *)
(***************************************************************************)
\* largest number of section blocks of a text
MaxBlocks == 2

CaseNames == {"a", "b"}

Subsections == 1..4

\* under a header: no time-column line, a body extract_section_data raises on, or
\* the data lines as [Nuclide, Mass]; Mass 0 is a value not above 1e-12
Bodies ==
    {[kind |-> "noheader", lines |-> <<>>], [kind |-> "raises", lines |-> <<>>]}
    \cup {[kind |-> "data", lines |-> l] : l \in
             {<<[Nuclide |-> "X", Mass |-> 0]>>,
              <<[Nuclide |-> "X", Mass |-> 1]>>,
              <<[Nuclide |-> "X", Mass |-> 2], [Nuclide |-> "Y", Mass |-> 1]>>,
              <<[Nuclide |-> "Y", Mass |-> 2], [Nuclide |-> "Y", Mass |-> 1]>>}}

Blocks == [case : CaseNames, sub : Subsections, body : Bodies]

Contents == UNION {[1..n -> Blocks] : n \in 0..MaxBlocks}

Range(f) == {f[k] : k \in DOMAIN f}

\* re.findall of the case pattern: the labels of the full-table headers, in text order
CaseLabels(text) ==
    LET full == SelectSeq(text, LAMBDA b : b.sub = 1)
    IN  [k \in 1..Len(full) |-> full[k].case]

\* the orders list(set(cases)) may come out in: a set of str has no defined order
SetOrders(S) ==
    {f \in [1..Cardinality(S) -> S] : \A x \in S : \E k \in DOMAIN f : f[k] = x}

\* find_all_cases: every list it may return
find_all_cases(text) == SetOrders(Range(CaseLabels(text)))

\* lines 191-197: the data lines whose last value is above 1e-12
CleanData(lines) == SelectSeq(lines, LAMBDA r : r.Mass > 0)

\* extract_section_data: the frame it returns (rows = <<>> is the empty frame), or
\* that it raised
extract_section_data(text, case, sub) ==
    IF \A k \in 1..Len(text) : ~(text[k].case = case /\ text[k].sub = sub)
    THEN [raised |-> FALSE, rows |-> <<>>]          \* section not found
    ELSE
    LET first == CHOOSE k \in 1..Len(text) :
                     /\ text[k].case = case /\ text[k].sub = sub
                     /\ \A h \in 1..(k - 1) : ~(text[h].case = case /\ text[h].sub = sub)
        body == text[first].body
    IN  IF body.kind = "noheader" THEN [raised |-> FALSE, rows |-> <<>>]
        ELSE IF body.kind = "raises" THEN [raised |-> TRUE, rows |-> <<>>]
        ELSE [raised |-> FALSE, rows |-> CleanData(body.lines)]

RECURSIVE DropDuplicates_KeepLast(_)
\* deduplication that keeps the last occurrence of a name
DropDuplicates_KeepLast(rows) ==
    IF rows = <<>> THEN <<>>
    ELSE LET tl == Tail(rows)
         IN  IF \E k \in 1..Len(tl) : tl[k].Nuclide = Head(rows).Nuclide
             THEN DropDuplicates_KeepLast(tl)
             ELSE <<Head(rows)>> \o DropDuplicates_KeepLast(tl)

\* deduplication that returns the kept rows newest first
DropDuplicates_NewestFirst(rows) == Reverse(DropDuplicates_KeepLast(rows))

RECURSIVE DropDuplicates(_)
\* drop_duplicates(subset='Nuclide', keep='first')
DropDuplicates(rows) ==
    IF rows = <<>> THEN <<>>
    ELSE LET init == SubSeq(rows, 1, Len(rows) - 1)
             last == rows[Len(rows)]
         IN  IF \E k \in 1..Len(init) : init[k].Nuclide = last.Nuclide
             THEN DropDuplicates(init)
             ELSE DropDuplicates(init) \o <<last>>

\* line 239
TargetCase(selected, all_cases) ==
    IF selected # None /\ selected[1] \in Range(all_cases)
    THEN selected[1]
    ELSE all_cases[Len(all_cases)]

RECURSIVE AllDfs_AbortsOnEmpty(_, _, _)
\* a loop that gives up at the first subsection without records
AllDfs_AbortsOnEmpty(text, case, sub) ==
    IF sub > 4 THEN <<>>
    ELSE LET r == extract_section_data(text, case, sub)
         IN  IF r.raised \/ r.rows = <<>> THEN <<>>
             ELSE r.rows \o AllDfs_AbortsOnEmpty(text, case, sub + 1)

RECURSIVE AllDfs(_, _, _)
\* lines 250-260 and 266: the non-empty frames of subsections sub..4, concatenated
AllDfs(text, case, sub) ==
    IF sub > 4 THEN <<>>
    ELSE LET r == extract_section_data(text, case, sub)
         IN  (IF r.raised THEN <<>> ELSE r.rows) \o AllDfs(text, case, sub + 1)

\* parse_all_sections, given the list find_all_cases returned
parse_all_sections(text, selected, all_cases) ==
    IF all_cases = <<>>
    THEN [outcome |-> "empty_frame", table |-> <<>>, target_case |-> None,
          all_cases |-> all_cases]                   \* return pd.DataFrame()
    ELSE
    LET target == TargetCase(selected, all_cases)
        rows == AllDfs(text, target, 1)
    IN  IF rows = <<>>
        THEN [outcome |-> "raised", table |-> <<>>, target_case |-> Some(target),
              all_cases |-> all_cases]               \* ValueError of line 263
        ELSE [outcome |-> "returned", table |-> DropDuplicates(rows),
              target_case |-> Some(target), all_cases |-> all_cases]

InitParse ==
    /\ IdleBatch
    /\ IdleOther
    /\ IdleParser
    /\ IdleRun
    /\ IdleRegistry
    /\ IdleMain
    /\ content \in Contents
    /\ selected_case \in {None} \cup {Some(c) : c \in CaseNames \cup {"c"}}
    /\ parse_out = None

\* one call of parser.parse_all_sections(selected_case)
CallParse ==
    /\ parse_out = None
    /\ \E all_cases \in find_all_cases(content) :
           parse_out' = Some(parse_all_sections(content, selected_case, all_cases))
    /\ UNCHANGED <<content, selected_case>>
    /\ UNCHANGED <<batchVars, genVars, runVars, regVars, mainVars, auditVars, otherVars>>

NextParse == CallParse

SpecParse == InitParse /\ [][NextParse]_vars

(***************************************************************************)
(* Properties of parse_all_sections.                                       *)
(***************************************************************************)
\* the case whose label comes last in the text, and the case that is met for the
\* first time last
LastDiscovered(text) ==
    LET labels == CaseLabels(text)
        firsts == SelectSeq([k \in 1..Len(labels) |->
                                IF \E h \in 1..(k - 1) : labels[h] = labels[k]
                                THEN "" ELSE labels[k]],
                            LAMBDA c : c # "")
    IN  {labels[Len(labels)], firsts[Len(firsts)]}

SelectedIsDiscovered ==
    selected_case # None /\ selected_case[1] \in Range(CaseLabels(content))

\* C13: the processed case is the caller's when that is among the discovered
\* cases, and otherwise the case discovered last in text order.
C13_TargetCase ==
    (parse_out # None /\ CaseLabels(content) # <<>>) =>
        IF SelectedIsDiscovered
        THEN parse_out[1].target_case = selected_case
        ELSE parse_out[1].target_case[1] \in LastDiscovered(content)

\* the caller's half of C13: a discovered selected case is the one processed
C13_SelectedCaseIsProcessed ==
    (parse_out # None /\ SelectedIsDiscovered) =>
        parse_out[1].target_case = selected_case

\* C14: on a text without any case label parse_all_sections fails with an error
\* instead of returning a result.
C14_NoCaseFails ==
    (parse_out # None /\ CaseLabels(content) = <<>>) =>
        parse_out[1].outcome = "raised"

\* the records the first block of one case and subsection stands for: its data
\* lines above 1e-12, none when the block is missing, has no header or raises
SectionRecords(case, sub) ==
    LET ks == {k \in 1..Len(content) : content[k].case = case /\ content[k].sub = sub}
    IN  IF ks = {} THEN <<>>
        ELSE LET b == content[CHOOSE k \in ks : \A h \in ks : k <= h].body
             IN  IF b.kind = "data" THEN SelectSeq(b.lines, LAMBDA r : r.Mass > 0)
                 ELSE <<>>

\* the records of the four subsections of a case in the order full table, light
\* elements, actinides, fission products
Concatenation(case) ==
    SectionRecords(case, 1) \o SectionRecords(case, 2)
        \o SectionRecords(case, 3) \o SectionRecords(case, 4)

\* the selected case has a subsection without records next to one with records
LameSubsection(case) ==
    \E k \in 1..Len(content) :
        /\ content[k].case = case
        /\ SectionRecords(case, content[k].sub) = <<>>

\* C15: for the selected case parse_all_sections fails exactly when the four
\* subsections together yield no record; otherwise it returns a table, also when
\* some subsection is missing, has no header or raises.
C15_FailsIffNoRecords ==
    (parse_out # None /\ parse_out[1].target_case # None) =>
        LET case == parse_out[1].target_case[1]
        IN  /\ parse_out[1].outcome = "raised" <=> Concatenation(case) = <<>>
            /\ parse_out[1].outcome \in {"raised", "returned"}
            /\ parse_out[1].outcome = "returned" => parse_out[1].table # <<>>

\* a table returned although the full-table subsection of the case gave no record
C15_Witness ==
    /\ parse_out # None
    /\ parse_out[1].outcome = "returned"
    /\ LameSubsection(parse_out[1].target_case[1])
    /\ SectionRecords(parse_out[1].target_case[1], 1) = <<>>
    /\ SectionRecords(parse_out[1].target_case[1], 3) = <<>>

\* C16: the returned table has one record per nuclide name, and the mass of a name
\* is the mass of its first occurrence in the concatenation of the subsections.
C16_FirstOccurrenceWins ==
    (parse_out # None /\ parse_out[1].outcome = "returned") =>
        LET t == parse_out[1].table
            all == Concatenation(parse_out[1].target_case[1])
        IN  /\ \A i, k \in 1..Len(t) : i # k => t[i].Nuclide # t[k].Nuclide
            /\ {t[i].Nuclide : i \in 1..Len(t)} = {all[i].Nuclide : i \in 1..Len(all)}
            /\ \A i \in 1..Len(t) :
                   \E k \in 1..Len(all) :
                       /\ all[k] = t[i]
                       /\ \A h \in 1..(k - 1) : all[h].Nuclide # t[i].Nuclide

\* a name listed with different masses in two subsections
C16_Witness ==
    /\ parse_out # None
    /\ parse_out[1].outcome = "returned"
    /\ LET all == Concatenation(parse_out[1].target_case[1])
       IN  \E i, k \in 1..Len(all) :
               /\ i < k
               /\ all[i].Nuclide = all[k].Nuclide
               /\ all[i].Mass # all[k].Mass
               /\ SectionRecords(parse_out[1].target_case[1], 1) # all

(***************************************************************************)
(* More properties of the material card generator.                         *)
(***************************************************************************)
\* C17: a nuclide whose weight fraction is below the cutoff contributes to no entry
\* of the fraction table (a ZAID all of whose nuclides are below it has no entry, any
\* other entry holds exactly the nuclides at or above the cutoff),
\* while total_mass, the density and the denominator of every entry count its mass
\* (stated for the tables of up to MaxRows rows).
C17_DroppedButCounted ==
    (Returned_Gen /\ Len(df) <= MaxRows) =>
        LET p == gen_out[1].processed_zaids
        IN  /\ gen_out[1].total_mass_g = SumMass(df)
            /\ gen_out[1].density_g_cm3 = Quotient(SumMass(df), DefaultVolume)
            /\ \A z \in DOMAIN p : p[z].den = SumMass(df)
            /\ \A k \in (1..Len(df)) \ ExcludedRows :
                   LET z == RowZaid(k)[1]
                   IN  IF z = helium_zaid
                       THEN z \in DOMAIN p =>
                                p[z].num = gen_out[1].helium_mass_g + MassOf(KeptRows(z))
                       ELSE IF KeptRows(z) = {} THEN z \notin DOMAIN p
                       ELSE p[z].num = MassOf(KeptRows(z))

\* a card made from a table with a nuclide below the cutoff and one above it
C17_Witness ==
    /\ Returned_Gen
    /\ Len(df) <= MaxRows
    /\ \E k \in DroppedRows : RowZaid(k)[1] \notin DOMAIN gen_out[1].processed_zaids
    /\ \E z \in DOMAIN gen_out[1].processed_zaids :
           /\ z # helium_zaid
           /\ gen_out[1].processed_zaids[z].num < gen_out[1].processed_zaids[z].den

(***************************************************************************)
(* Loading the isotope registries: _initialize_available_isotopes of the   *)
(* material converter and load_endf8_isotopes of the parser.               *)
(***************************************************************************)
SUPPORTED_LIBRARIES == <<".00c", ".70c", ".31c">>

\* a registry file: absent; a JSON object with the key "isotopes"; a JSON object
\* without it; text json.load rejects; valid JSON that is no object (a list)
FileStates == {"missing", "ok", "no_key", "bad_json", "not_object"}

\* the ZAIDs listed in an "ok" registry file
ListedIsotopes == {92235, 2004}

RECURSIVE LoadLibraries(_, _, _, _)
\* lines 238-261: the loop over SUPPORTED_LIBRARIES from position pos on, on
\* acc = [raised, available, warned]
LoadLibraries(pos, files, selected, acc) ==
    IF pos > Len(SUPPORTED_LIBRARIES) THEN acc
    ELSE
    LET lib == SUPPORTED_LIBRARIES[pos]
        state == files[lib]
    IN  IF state = "missing"
        THEN LoadLibraries(pos + 1, files, selected,
                 [acc EXCEPT !.warned = IF lib = selected THEN @ \cup {lib} ELSE @])
        ELSE IF state = "ok"
        THEN LoadLibraries(pos + 1, files, selected,
                 [acc EXCEPT !.available[lib] = ListedIsotopes])
        ELSE IF state = "no_key"
        THEN \* data.get("isotopes", []) is the default
             LoadLibraries(pos + 1, files, selected, acc)
        ELSE IF state = "bad_json"
        THEN IF lib = selected
             THEN [acc EXCEPT !.raised = "LibraryDataError"]
             ELSE LoadLibraries(pos + 1, files, selected,
                      [acc EXCEPT !.warned = @ \cup {lib}])
        ELSE \* json.load returns a list; data.get raises AttributeError, which the
             \* except clause of line 249 does not catch
             [acc EXCEPT !.raised = "AttributeError"]

\* _initialize_available_isotopes
initialize_available_isotopes(files, selected) ==
    LoadLibraries(1, files, selected,
                  [raised |-> "none",
                   available |-> [lib \in Range(SUPPORTED_LIBRARIES) |-> {}],
                   warned |-> {}])

\* load_endf8_isotopes: every failure is caught and gives the empty set
load_endf8_isotopes(state) ==
    IF state = "ok" THEN ListedIsotopes ELSE {}

InitRegistry ==
    /\ IdleBatch
    /\ IdleOther
    /\ IdleParser
    /\ IdleRun
    /\ IdleParse
    /\ IdleMain
    /\ library_suffix \in Range(SUPPORTED_LIBRARIES)
    /\ registry_files \in [Range(SUPPORTED_LIBRARIES) -> FileStates]
    /\ reg_out = None
    /\ endf8_out = None

\* MCNPMaterialConverter(library_suffix): line 153
CallInitializeAvailable ==
    /\ reg_out = None
    /\ reg_out' = Some(initialize_available_isotopes(registry_files, library_suffix))
    /\ UNCHANGED <<library_suffix, registry_files, endf8_out>>
    /\ UNCHANGED <<batchVars, genVars, runVars, parseVars, mainVars, auditVars, otherVars>>

\* OptimizedORIGENParser(...): line 28, on the ENDF/B-VIII.0 registry file
CallLoadEndf8 ==
    /\ endf8_out = None
    /\ endf8_out' = Some(load_endf8_isotopes(registry_files[".00c"]))
    /\ UNCHANGED <<library_suffix, registry_files, reg_out>>
    /\ UNCHANGED <<batchVars, genVars, runVars, parseVars, mainVars, auditVars, otherVars>>

NextRegistry == CallInitializeAvailable \/ CallLoadEndf8

SpecRegistry == InitRegistry /\ [][NextRegistry]_vars

\* C18: loading aborts only when the selected library's file exists and cannot be
\* parsed; a missing file, or a malformed file of another library, does not stop
\* the loading and leaves that library's set empty.
C18_AbortOnlyForSelected ==
    /\ reg_out # None =>
           /\ reg_out[1].raised # "none" =>
                  registry_files[library_suffix] \in {"bad_json", "not_object"}
           /\ reg_out[1].raised = "none" =>
                  \A lib \in Range(SUPPORTED_LIBRARIES) :
                      registry_files[lib] # "ok" => reg_out[1].available[lib] = {}
    /\ endf8_out # None =>
           (registry_files[".00c"] # "ok" => endf8_out[1] = {})

\* what the converter does keep to: an unparseable JSON text only aborts for the
\* selected library
C18_BadJsonAbortsOnlyForSelected ==
    (reg_out # None /\ reg_out[1].raised = "LibraryDataError") =>
        registry_files[library_suffix] = "bad_json"

(***************************************************************************)
(* A keyboard interrupt during process_all_parallel.  KeyboardInterrupt is *)
(* raised in the coordinating thread; it leaves the with-block, whose exit *)
(* waits for the submitted work (shutdown(wait=True)), then the finally    *)
(* clause, and is caught by main, which exits without saving anything.     *)
(* Pool threads never see the interrupt.  Worker processes see it when the *)
(* signal goes to the whole process group (Ctrl-C) and not when it is sent *)
(* to the coordinating process alone.                                      *)
(***************************************************************************)
\* jobs whose pipeline a worker has begun and not finished
MidPipeline ==
    {i \in JobIdx :
        fut[i].st \in (IF executor_type = "thread"
                       THEN {"running", "stored", "failing"} ELSE {"taken"})}

KeyboardInterrupt ==
    /\ pc \in {"submitting", "collecting"}
    /\ pc' = "interrupted"
    /\ interrupted_jobs' = MidPipeline
    /\ \E to_group \in BOOLEAN :
           fut' = IF to_group /\ executor_type = "process"
                  THEN \* the pipeline of a worker process dies of KeyboardInterrupt,
                       \* which 'except Exception' (line 71) does not catch
                       [i \in JobIdx |->
                           IF fut[i].st = "taken" THEN [fut[i] EXCEPT !.st = "killed"]
                           ELSE fut[i]]
                  ELSE fut
    /\ UNCHANGED <<executor_type, max_workers, jobs, stop_monitoring,
                   progress_callback, submit_pos, job_index, fresult, handled,
                   results, failed_jobs, combined_file, submitted, runs,
                   completed_order>>
    /\ UNCHANGED <<genVars, runVars, parseVars, regVars, reportVars, auditVars, otherVars>>

\* lines 306-307 and 496-498: the pool has drained, main prints and exits with 1
ExitInterrupted ==
    /\ pc = "interrupted"
    /\ \A i \in JobIdx : fut[i].st \in {"none", "done", "killed"}
    /\ stop_monitoring' = TRUE
    /\ pc' = "exit_interrupted"
    /\ UNCHANGED <<executor_type, max_workers, jobs, progress_callback, submit_pos,
                   job_index, fut, fresult, handled, results, failed_jobs,
                   combined_file, submitted, runs, completed_order>>
    /\ UNCHANGED <<genVars, moreVars, otherVars, auditVars>>

NextInterrupt == NextBatch \/ KeyboardInterrupt \/ ExitInterrupted

SpecInterrupt == Init /\ [][NextInterrupt]_vars

\* C19: after an interrupt no job that was in mid-pipeline when it arrived is
\* completed or has its material in the combined file, and when main has exited
\* every such job is failed.
C19_InterruptedJobEndsFailed ==
    pc \in {"interrupted", "exit_interrupted"} =>
        \A i \in interrupted_jobs :
            /\ jobs[i].status # "completed"
            /\ combined_file = None
            /\ pc = "exit_interrupted" => jobs[i].status = "failed"

\* the part of C19 the code keeps to: an interrupted batch writes no output
C19_NothingWritten ==
    pc \in {"interrupted", "exit_interrupted"} => combined_file = None

\* the process executor alone: an interrupted job is never completed
C19_ProcessJobNeverCompleted ==
    (pc \in {"interrupted", "exit_interrupted"} /\ executor_type = "process") =>
        \A i \in interrupted_jobs : jobs[i].status # "completed"

(***************************************************************************)
(* Properties of the final reports of main.                                *)
(***************************************************************************)
\* C20: when main has reported, total = successful + failed and total is the
\* number of enqueued jobs, in the console tally and in the summary file, and
\* every job counted as failed is listed with an error text.
C20_TallyAddsUp ==
    pc = "exited" =>
        /\ console[1].total = console[1].successful + console[1].failed
        /\ console[1].total = Len(jobs)
        /\ Cardinality(console[1].failed_elements) = console[1].failed
        /\ \A f \in console[1].failed_elements : f.error # None
        /\ summary_json # None =>
               /\ summary_json[1].total_elements
                      = summary_json[1].successful_elements
                            + summary_json[1].failed_elements
               /\ summary_json[1].total_elements = Len(jobs)
               /\ \A el \in summary_json[1].elements :
                      el.status = "failed" => el.error # None

\* the same when the progress callback does not raise
C20_TallyAddsUpQuietCallback ==
    progress_callback # "raises" => C20_TallyAddsUp

(***************************************************************************)
(* Properties of the shared files and of the job records.                  *)
(***************************************************************************)
\* C21: no two writers write the element cache file or the materials database at
\* the same time: a pool worker only reads the element cache, and every write to
\* either file is made by the coordinating thread, after process_all_parallel
\* has returned and with every job in a terminal status.
C21_OneWriterAfterTheBatch ==
    \A a \in file_log :
        /\ a.by # 0 => (a.op = "read" /\ a.file = "element_cache")
        /\ a.op = "write" => (a.by = 0 /\ a.jobs_terminal /\ Returned)

\* two workers have loaded the cache and main has written the database
C21_Witness ==
    /\ database # None
    /\ max_workers = 2
    /\ \E a, b \in file_log :
           /\ a.by > 0 /\ b.by > 0 /\ a.by # b.by
           /\ a.op = "read" /\ b.op = "read"
    /\ \E w \in file_log : w.op = "write" /\ w.file = "database"

\* C22: the record of a job (status, result, error, timing) is written only by the
\* pool worker that processes the job, under either executor, and a worker writes
\* no record but its own job's.
C22_WrittenByItsWorkerOnly ==
    \A i \in 1..Len(record_writers) : record_writers[i] \subseteq {i}

\* what the code keeps to: every record has one writer, the job's pool thread
\* under the thread executor and the coordinating thread under the process
\* executor, and a completed job holds the card made from its own file
C22_OneWriterPerRecord ==
    \A i \in 1..Len(record_writers) :
        /\ record_writers[i] \subseteq (IF executor_type = "thread" THEN {i} ELSE {0})
        /\ jobs[i].status = "completed" =>
               jobs[i].material_card[1].source = jobs[i].element_name

\* C23: in the summary file every job's entry holds the job's final status, and
\* the entry of a completed job, under either executor, also holds a runtime
\* that is not null and the job's isotope count, total mass and density.
C23_SummaryComplete ==
    summary_json # None =>
        \A el \in summary_json[1].elements :
            /\ el.status = JobNamed(el.element_name).status
            /\ el.status = "completed" =>
                   /\ el.runtime_seconds
                   /\ el.material # None
                   /\ el.material[1].composition = el.element_name

\* what the code keeps to: the entries are complete under the thread executor, and
\* under the process executor all but the runtime is there
C23_SummaryCompleteButRuntime ==
    summary_json # None =>
        \A el \in summary_json[1].elements :
            /\ el.status = JobNamed(el.element_name).status
            /\ el.status = "completed" =>
                   /\ executor_type = "thread" => el.runtime_seconds
                   /\ el.material # None
                   /\ el.material[1].composition = el.element_name

(***************************************************************************)
(* The data-line loop of extract_section_data (parseOutput.py 182-197).    *)
(* A line is held as line.strip().split(): its whitespace-separated        *)
(* tokens, each a string of characters; a blank line has no token.         *)
(***************************************************************************)
\* largest number of tokens of a line
MaxTokens == 3
\* largest number of lines after the header
MaxLines == 2
\* largest number of time columns of the header line
MaxHeader == 2

\* str.lower
LowerStr(str) == [k \in 1..Len(str) |-> ToLower(str[k])]

\* sub in str
Contains(str, sub) ==
    \E k \in 0..(Len(str) - Len(sub)) : SubSeq(str, k + 1, k + Len(sub)) = sub

\* line.startswith(c) on the stripped line: the first character of the first token
StartsWith(line, c) == line # <<>> /\ line[1] # <<>> /\ line[1][1] = c

\* 'totals' in line.lower(): a substring cannot span the whitespace between tokens
HasTotals(line) ==
    \E k \in 1..Len(line) : Contains(LowerStr(line[k]), <<"t", "o", "t", "a", "l", "s">>)

AllDigits(str) == str # <<>> /\ \A k \in 1..Len(str) : IsDigit(str[k])

\* the string without its leading sign
Unsigned(str) == IF str # <<>> /\ str[1] \in {"+", "-"} THEN Tail(str) ELSE str

\* the decimal part of a float literal: digits with at most one point; the value
\* is mant * 10^exp; None when it is not a decimal number
ParseDecimal(str) ==
    LET dots == {k \in 1..Len(str) : str[k] = "."}
    IN  IF dots = {}
        THEN IF AllDigits(str) THEN Some([mant |-> ParseInt(str), exp |-> 0]) ELSE None
        ELSE IF Cardinality(dots) = 1
        THEN LET d == CHOOSE k \in dots : TRUE
                 whole == SubSeq(str, 1, d - 1)
                 frac == SubSeq(str, d + 1, Len(str))
             IN  IF /\ whole \o frac # <<>>
                    /\ \A k \in 1..Len(whole \o frac) : IsDigit((whole \o frac)[k])
                 THEN Some([mant |-> ParseInt(whole \o frac), exp |-> 0 - Len(frac)])
                 ELSE None
        ELSE None

\* float(token): None for ValueError, else nan or the value mant * 10^exp
ParseFloat(tok) ==
    LET low == LowerStr(tok)
        body == Unsigned(low)
        sign == IF low # <<>> /\ low[1] = "-" THEN 0 - 1 ELSE 1
        es == {k \in 1..Len(body) : body[k] = "e"}
    IN  IF body = <<"n", "a", "n">>
        THEN Some([nan |-> TRUE, mant |-> 0, exp |-> 0])
        ELSE IF es = {}
        THEN IF ParseDecimal(body) = None THEN None
             ELSE Some([nan |-> FALSE, mant |-> sign * ParseDecimal(body)[1].mant,
                        exp |-> ParseDecimal(body)[1].exp])
        ELSE IF Cardinality(es) = 1
        THEN LET e == CHOOSE k \in es : TRUE
                 m == ParseDecimal(SubSeq(body, 1, e - 1))
                 x == SubSeq(body, e + 1, Len(body))
             IN  IF m # None /\ AllDigits(Unsigned(x))
                 THEN Some([nan |-> FALSE, mant |-> sign * m[1].mant,
                            exp |-> m[1].exp
                                    + (IF x[1] = "-" THEN 0 - 1 ELSE 1)
                                          * ParseInt(Unsigned(x))])
                 ELSE None
        ELSE None

RECURSIVE Pow10(_)
Pow10(n) == IF n = 0 THEN 1 ELSE 10 * Pow10(n - 1)

\* last_value > 1e-12 for a parsed value; a comparison with nan is false
GreaterThanThreshold(v) ==
    /\ ~v.nan
    /\ v.mant > 0
    /\ IF v.exp + 12 > 0 THEN TRUE
       ELSE IF v.exp + 12 = 0 THEN v.mant > 1
       ELSE 0 - (v.exp + 12) <= 9 /\ v.mant > Pow10(0 - (v.exp + 12))

\* a loop body that takes the last token of the line, as parts[-1] does
LineRecord_LastToken(line, n) ==
    IF line = <<>> \/ HasTotals(line) \/ StartsWith(line, "=") \/ StartsWith(line, "-")
    THEN None
    ELSE IF Len(line) < n + 1 THEN None
    ELSE LET v == ParseFloat(line[Len(line)])
         IN  IF v = None THEN None
             ELSE IF GreaterThanThreshold(v[1])
                  THEN Some([Nuclide |-> line[1], Mass |-> v[1]])
                  ELSE None

\* lines 183-197: what one line appends to clean_data (None: nothing);
\* parts[last_col_index] counts from 0
LineRecord(line, n) ==
    IF line = <<>> \/ HasTotals(line) \/ StartsWith(line, "=") \/ StartsWith(line, "-")
    THEN None
    ELSE IF Len(line) < n + 1 THEN None
    ELSE LET v == ParseFloat(line[n + 1])
         IN  IF v = None THEN None
             ELSE IF GreaterThanThreshold(v[1])
                  THEN Some([Nuclide |-> line[1], Mass |-> v[1]])
                  ELSE None

RECURSIVE CleanRows(_, _)
\* lines 181-197: the loop over the lines after the header
CleanRows(lines, n) ==
    IF lines = <<>> THEN <<>>
    ELSE LineRecord(Head(lines), n) \o CleanRows(Tail(lines), n)

\* the tokens tried: a name, a rule, a negative number, a totals label, the
\* threshold itself, a value above it, and nan
LineTokens ==
    {<<"u">>, <<"=">>, <<"-", "1", "e", "-", "9">>, <<"T", "o", "t", "a", "l", "s">>,
     <<"1", ".", "0", "E", "-", "1", "2">>, <<"2", "E", "-", "1", "2">>,
     <<"n", "a", "n">>}

LinesUpTo(n) == UNION {[1..k -> LineTokens] : k \in 0..n}

\* one line, or a short line followed by any line
Sections ==
    {<<a>> : a \in LinesUpTo(MaxTokens)}
        \cup {s \in UNION {[1..k -> LinesUpTo(MaxTokens)] : k \in 2..MaxLines} :
                 \A j \in 1..(Len(s) - 1) : Len(s[j]) <= 2}

InitLine ==
    /\ IdleBatch
    /\ IdleParser
    /\ IdleMore
    /\ IdleRunner
    /\ IdleWorkflow
    /\ last_col_index \in 1..MaxHeader
    /\ section_lines \in Sections
    /\ clean_data = None

\* the loop runs over the section
CallCleanRows ==
    /\ clean_data = None
    /\ clean_data' = Some(CleanRows(section_lines, last_col_index))
    /\ UNCHANGED <<last_col_index, section_lines>>
    /\ UNCHANGED <<batchVars, genVars, moreVars, auditVars, runnerVars, workflowVars>>

NextLine == CallCleanRows

SpecLine == InitLine /\ [][NextLine]_vars

\* the value of a parsed token in units of 1e-13, for the exponents of the tokens tried
InUnits(v) == v.mant * Pow10(v.exp + 13)

\* the conditions under which a line is to yield a record
YieldsRecord(line, n) ==
    /\ line # <<>>
    /\ ~StartsWith(line, "=")
    /\ ~StartsWith(line, "-")
    /\ ~HasTotals(line)
    /\ Len(line) >= n + 1
    /\ ParseFloat(line[n + 1]) # None
    /\ ~ParseFloat(line[n + 1])[1].nan
    /\ InUnits(ParseFloat(line[n + 1])[1]) > 10

\* C24: a line after the header yields a record exactly when it is not blank,
\* does not start with '=' or '-', does not contain 'totals' in any letter case,
\* has at least header_token_count + 1 tokens and its token at index
\* header_token_count parses as a number greater than 1e-12; the record is
\* (token 0, that value) whatever follows that token, and every other line is
\* skipped with the loop going on to the next line.
C24_RecordExactlyWhen ==
    clean_data # None =>
        LET kept == SelectSeq(section_lines,
                              LAMBDA l : YieldsRecord(l, last_col_index))
        IN  /\ Len(clean_data[1]) = Len(kept)
            /\ \A k \in 1..Len(kept) :
                   /\ clean_data[1][k].Nuclide = kept[k][1]
                   /\ clean_data[1][k].Mass = ParseFloat(kept[k][last_col_index + 1])[1]

\* a line whose value token does not parse was skipped and the next line, with a
\* trailing token after its value, gave the record
C24_Witness ==
    /\ clean_data # None
    /\ Len(section_lines) = 2
    /\ last_col_index = 1
    /\ section_lines[1] = <<<<"u">>, <<"u">>>>
    /\ Len(section_lines[2]) = 3
    /\ ParseFloat(section_lines[2][3]) = None
    /\ Len(clean_data[1]) = 1
    /\ clean_data[1][1].Nuclide = <<"u">>
    /\ clean_data[1][1].Mass = [nan |-> FALSE, mant |-> 2, exp |-> 0 - 12]

\* C25: the deduplication is idempotent: applied to the table parse_all_sections
\* returned, which is already deduplicated, it gives the same table, with the
\* same names, masses and order.
C25_DeduplicationIdempotent ==
    (parse_out # None /\ parse_out[1].outcome = "returned") =>
        /\ DropDuplicates(parse_out[1].table) = parse_out[1].table
        /\ \A i, k \in 1..Len(parse_out[1].table) :
               i # k => parse_out[1].table[i].Nuclide # parse_out[1].table[k].Nuclide

\* a returned table of two names from which a repeated name had been dropped
C25_Witness ==
    /\ parse_out # None
    /\ parse_out[1].outcome = "returned"
    /\ Len(parse_out[1].table) = 2
    /\ Len(Concatenation(parse_out[1].target_case[1])) > 2

\* C26: in every reachable state of a batch, the ones the monitor thread reads
\* included, a job whose status is completed has its material card and its
\* material info set: the status becomes completed only after both were stored.
C26_CompletedHasResult ==
    \A i \in JobIdx :
        jobs[i].status = "completed" =>
            /\ jobs[i].material_card # None
            /\ jobs[i].material_info # None

\* the monitor thread is running and has logged progress while a pool thread has
\* stored a job's result and not yet set its status
C26_Witness ==
    /\ executor_type = "thread"
    /\ monitor = "running"
    /\ progress_seen # None
    /\ \E i, j \in JobIdx :
           /\ fut[i].st = "stored"
           /\ jobs[i].status = "running"
           /\ jobs[i].material_card # None
           /\ jobs[j].status = "completed"

(***************************************************************************)
(* The two executors compared: what a batch ends with is a function of its *)
(* input files and of the progress callback alone.                         *)
(***************************************************************************)
\* the status a file's job is to end with under either executor
OutcomeOf(file) == IF file.kind = "ok" THEN "completed" ELSE "failed"

MainStep ==
    \/ add_element_files
    \/ RaiseNoJobs
    \/ StartProcessing
    \/ Submit
    \/ \E i \in JobIdx : CollectResult(i)
    \/ ReturnResults
    \/ ExitInterrupted

\* steps of the pool workers
WorkerStep ==
    \E i \in JobIdx :
        \/ Dequeue(i)
        \/ StartElement(i)
        \/ RunPipeline(i)
        \/ CompleteElement(i)
        \/ RecordError(i)
        \/ RunInProcess(i)

Fairness ==
    /\ WF_vars(MainStep)
    /\ WF_vars(WorkerStep)
    /\ WF_vars(MonitorExit)

SpecLive == Init /\ [][NextInterrupt]_vars /\ Fairness

\* process_all_parallel is over: it returned, or left by an exception
CallOver ==
    \/ Returned
    \/ pc \in {"no_jobs", "exit_interrupted"}

\* the original reading of C28: on every exit path of process_all_parallel, the
\* ValueError of an empty job table included, stop_monitoring is true
C28_StopSetOnEveryExit == CallOver => stop_monitoring

\* C28: provided every per-file pipeline terminates, process_all_parallel is
\* eventually over for any number of jobs and any pool size of at least 1; on every
\* exit path that follows the start of the monitor thread (normal return or
\* exception) stop_monitoring is true, so the monitor thread eventually stops;
\* and no step of the monitor thread changes a job.
C28_ReturnsAndMonitorStops ==
    /\ <>(CallOver \/ pc = "fatal")
    /\ []((CallOver /\ monitor # "not_started") => stop_monitoring)
    /\ (monitor = "running") ~> (monitor = "stopped")
    /\ [][(progress_seen' # progress_seen \/ monitor' = "stopped") => jobs' = jobs]_vars

\* three jobs went through a pool of one worker, the call has returned and the
\* monitor thread, which had logged progress, has stopped
C28_Witness ==
    /\ pc = "returned"
    /\ max_workers = 1
    /\ Len(jobs) = 3
    /\ stop_monitoring
    /\ progress_seen # None
    /\ monitor = "stopped"

(***************************************************************************)
(* ScaleParallelRunner (tools/scale_parallel_runner.py): a pool of threads *)
(* each running one SCALE process, and a monitor thread that copies the    *)
(* status found in a job's .msg file into the job while it is running.     *)
(***************************************************************************)
\* largest number of SCALE jobs
MaxScaleJobs == 2

\* parse_msg_file(...)['status'] (scale_msg_parser.py 115-191) of a .msg file that
\* is absent, holds the start of a run, or holds a finished run
MsgStatus(msg) ==
    CASE msg = "absent"       -> "not_started"
      [] msg = "started"      -> "running"
      [] msg = "finished_ok"  -> "completed"
      [] msg = "finished_bad" -> "failed"

\* parse_msg_file(...)['return_code']
MsgReturnCode(msg) ==
    CASE msg = "finished_ok"  -> Some(0)
      [] msg = "finished_bad" -> Some(1)
      [] OTHER                -> None

\* ScaleJob.__init__
ScaleJob == [status |-> "not_started", return_code |-> None]

ScaleIdx == 1..Len(scale_jobs)

\* pool threads that hold a job
BusyScale ==
    {i \in ScaleIdx : scale_worker[i].pc \in {"launched", "exited", "collected", "final"}}

InitRunner ==
    /\ IdleBatch
    /\ IdleParser
    /\ IdleMore
    /\ IdleLine
    /\ IdleWorkflow
    /\ runner_workers \in 1..MaxWorkers
    /\ scale_jobs = <<>>
    /\ msg_files = <<>>
    /\ scale_worker = <<>>
    /\ worker_status = <<>>
    /\ scale_monitor = [pc |-> "not_started", job |-> 0, status |-> "unknown"]
    /\ scale_results = <<>>
    /\ scale_stop = FALSE
    /\ scale_pc = "constructed"

\* add_job for each of n input files; a .msg file of an earlier run may exist
add_jobs ==
    /\ scale_pc = "constructed"
    /\ \E n \in 1..MaxScaleJobs :
           /\ scale_jobs' = [i \in 1..n |-> ScaleJob]
           /\ scale_worker' = [i \in 1..n |->
                                  [pc |-> "queued", rc |-> None, success |-> FALSE]]
           /\ worker_status' = [i \in 1..n |-> None]
           /\ msg_files' \in [1..n -> {"absent", "finished_ok"}]
    /\ scale_pc' = "ready"
    /\ UNCHANGED <<runner_workers, scale_monitor, scale_results, scale_stop>>
    /\ UNCHANGED <<batchVars, genVars, moreVars, auditVars, lineVars, workflowVars>>

\* run_all_parallel, lines 184-206: the monitor thread is started and every job
\* submitted; with no job the call raises ValueError
run_all_parallel ==
    /\ scale_pc \in {"constructed", "ready"}
    /\ IF scale_jobs = <<>>
       THEN /\ scale_pc' = "no_jobs"
            /\ UNCHANGED <<scale_stop, scale_monitor>>
       ELSE /\ scale_stop' = FALSE
            /\ scale_monitor' = [scale_monitor EXCEPT !.pc = "loop"]
            /\ scale_pc' = "running"
    /\ UNCHANGED <<runner_workers, scale_jobs, msg_files, scale_worker, worker_status,
                   scale_results>>
    /\ UNCHANGED <<batchVars, genVars, moreVars, auditVars, lineVars, workflowVars>>

\* _run_single_job, lines 100-120: a pool thread takes the oldest queued job, sets
\* it running and starts the process; Popen may raise (lines 147-151)
StartJob(i) ==
    /\ scale_pc = "running"
    /\ scale_worker[i].pc = "queued"
    /\ \A k \in 1..(i - 1) : scale_worker[k].pc # "queued"
    /\ Cardinality(BusyScale) < runner_workers
    /\ \E popen_raises \in BOOLEAN :
           IF popen_raises
           THEN /\ scale_jobs' = [scale_jobs EXCEPT ![i].status = "failed"]
                /\ scale_worker' = [scale_worker EXCEPT ![i].pc = "done"]
                /\ worker_status' = [worker_status EXCEPT ![i] = Some("failed")]
           ELSE /\ scale_jobs' = [scale_jobs EXCEPT ![i].status = "running"]
                /\ scale_worker' = [scale_worker EXCEPT ![i].pc = "launched"]
                /\ UNCHANGED worker_status
    /\ UNCHANGED <<runner_workers, msg_files, scale_monitor, scale_results, scale_stop,
                   scale_pc>>
    /\ UNCHANGED <<batchVars, genVars, moreVars, auditVars, lineVars, workflowVars>>

\* the SCALE process writes the start of its .msg file
ScaleWritesMsg(i) ==
    /\ scale_worker[i].pc = "launched"
    /\ msg_files[i] # "started"
    /\ msg_files' = [msg_files EXCEPT ![i] = "started"]
    /\ UNCHANGED <<runner_workers, scale_jobs, scale_worker, worker_status,
                   scale_monitor, scale_results, scale_stop, scale_pc>>
    /\ UNCHANGED <<batchVars, genVars, moreVars, auditVars, lineVars, workflowVars>>

\* the SCALE process exits, having finished its .msg file or not
ScaleExits(i) ==
    /\ scale_worker[i].pc = "launched"
    /\ \E code \in {0, 1}, finishes_msg \in BOOLEAN :
           /\ scale_worker' = [scale_worker EXCEPT ![i].pc = "exited",
                                                   ![i].rc = Some(code)]
           /\ msg_files' = IF finishes_msg
                           THEN [msg_files EXCEPT
                                    ![i] = IF code = 0 THEN "finished_ok"
                                           ELSE "finished_bad"]
                           ELSE msg_files
    /\ UNCHANGED <<runner_workers, scale_jobs, worker_status, scale_monitor,
                   scale_results, scale_stop, scale_pc>>
    /\ UNCHANGED <<batchVars, genVars, moreVars, auditVars, lineVars, workflowVars>>

\* lines 123-125: communicate() returns, the return code is stored
CommunicateReturns(i) ==
    /\ scale_worker[i].pc = "exited"
    /\ scale_jobs' = [scale_jobs EXCEPT ![i].return_code = scale_worker[i].rc]
    /\ scale_worker' = [scale_worker EXCEPT ![i].pc = "collected"]
    /\ UNCHANGED <<runner_workers, msg_files, worker_status, scale_monitor,
                   scale_results, scale_stop, scale_pc>>
    /\ UNCHANGED <<batchVars, genVars, moreVars, auditVars, lineVars, workflowVars>>

\* lines 128-135: the status the worker determines for the job
FinalStatus(msg, return_code) ==
    IF msg # "absent" THEN MsgStatus(msg)
    ELSE IF return_code = Some(0) THEN "completed" ELSE "failed"

\* lines 128-135: the worker sets the final status, from the .msg file if there is one
SetFinalStatus(i) ==
    /\ scale_worker[i].pc = "collected"
    /\ LET final == FinalStatus(msg_files[i], scale_jobs[i].return_code)
       IN  /\ scale_jobs' =
                  [scale_jobs EXCEPT
                      ![i].status = final,
                      ![i].return_code =
                          IF MsgReturnCode(msg_files[i]) # None
                          THEN MsgReturnCode(msg_files[i]) ELSE @]
           /\ worker_status' = [worker_status EXCEPT ![i] = Some(final)]
    /\ scale_worker' = [scale_worker EXCEPT ![i].pc = "final"]
    /\ UNCHANGED <<runner_workers, msg_files, scale_monitor, scale_results, scale_stop,
                   scale_pc>>
    /\ UNCHANGED <<batchVars, genVars, moreVars, auditVars, lineVars, workflowVars>>

\* lines 137-145: success is computed from job.status as it is now, and returned
ReturnJob(i) ==
    /\ scale_worker[i].pc = "final"
    /\ scale_worker' =
           [scale_worker EXCEPT
               ![i].pc = "done",
               ![i].success = (scale_jobs[i].status = "completed"
                                  /\ scale_jobs[i].return_code = Some(0))]
    /\ UNCHANGED <<runner_workers, scale_jobs, msg_files, worker_status, scale_monitor,
                   scale_results, scale_stop, scale_pc>>
    /\ UNCHANGED <<batchVars, genVars, moreVars, auditVars, lineVars, workflowVars>>

\* _monitor_jobs, line 158: the monitor finds a running job whose .msg file exists
MonitorLooks(i) ==
    /\ scale_monitor.pc = "loop"
    /\ ~scale_stop
    /\ scale_jobs[i].status = "running"
    /\ msg_files[i] # "absent"
    /\ scale_monitor' = [scale_monitor EXCEPT !.pc = "looked", !.job = i]
    /\ UNCHANGED <<runner_workers, scale_jobs, msg_files, scale_worker, worker_status,
                   scale_results, scale_stop, scale_pc>>
    /\ UNCHANGED <<batchVars, genVars, moreVars, auditVars, lineVars, workflowVars>>

\* line 160: it parses the .msg file
MonitorParses ==
    /\ scale_monitor.pc = "looked"
    /\ scale_monitor' = [scale_monitor EXCEPT
                            !.pc = "parsed",
                            !.status = MsgStatus(msg_files[scale_monitor.job])]
    /\ UNCHANGED <<runner_workers, scale_jobs, msg_files, scale_worker, worker_status,
                   scale_results, scale_stop, scale_pc>>
    /\ UNCHANGED <<batchVars, genVars, moreVars, auditVars, lineVars, workflowVars>>

\* lines 161-162: it stores the parsed status when that differs from job.status
MonitorUpdates ==
    /\ scale_monitor.pc = "parsed"
    /\ scale_jobs' =
           IF scale_monitor.status # scale_jobs[scale_monitor.job].status
           THEN [scale_jobs EXCEPT ![scale_monitor.job].status = scale_monitor.status]
           ELSE scale_jobs
    /\ scale_monitor' = [scale_monitor EXCEPT !.pc = "loop"]
    /\ UNCHANGED <<runner_workers, msg_files, scale_worker, worker_status,
                   scale_results, scale_stop, scale_pc>>
    /\ UNCHANGED <<batchVars, genVars, moreVars, auditVars, lineVars, workflowVars>>

\* line 155: the loop finds stop_monitoring set
MonitorStops ==
    /\ scale_monitor.pc = "loop"
    /\ scale_stop
    /\ scale_monitor' = [scale_monitor EXCEPT !.pc = "stopped"]
    /\ UNCHANGED <<runner_workers, scale_jobs, msg_files, scale_worker, worker_status,
                   scale_results, scale_stop, scale_pc>>
    /\ UNCHANGED <<batchVars, genVars, moreVars, auditVars, lineVars, workflowVars>>

\* lines 210-215: as_completed yields the future of a job, its success goes to results
CollectJob(i) ==
    /\ scale_pc = "running"
    /\ scale_worker[i].pc = "done"
    /\ i \notin DOMAIN scale_results
    /\ scale_results' = DictSet(scale_results, i, scale_worker[i].success)
    /\ UNCHANGED <<runner_workers, scale_jobs, msg_files, scale_worker, worker_status,
                   scale_monitor, scale_stop, scale_pc>>
    /\ UNCHANGED <<batchVars, genVars, moreVars, auditVars, lineVars, workflowVars>>

\* lines 234-244: the finally clause and the return
ReturnAll ==
    /\ scale_pc = "running"
    /\ DOMAIN scale_results = ScaleIdx
    /\ scale_stop' = TRUE
    /\ scale_pc' = "returned"
    /\ UNCHANGED <<runner_workers, scale_jobs, msg_files, scale_worker, worker_status,
                   scale_monitor, scale_results>>
    /\ UNCHANGED <<batchVars, genVars, moreVars, auditVars, lineVars, workflowVars>>

NextRunner ==
    \/ add_jobs
    \/ run_all_parallel
    \/ \E i \in ScaleIdx : StartJob(i)
    \/ \E i \in ScaleIdx : ScaleWritesMsg(i)
    \/ \E i \in ScaleIdx : ScaleExits(i)
    \/ \E i \in ScaleIdx : CommunicateReturns(i)
    \/ \E i \in ScaleIdx : SetFinalStatus(i)
    \/ \E i \in ScaleIdx : ReturnJob(i)
    \/ \E i \in ScaleIdx : MonitorLooks(i)
    \/ MonitorParses
    \/ MonitorUpdates
    \/ MonitorStops
    \/ \E i \in ScaleIdx : CollectJob(i)
    \/ ReturnAll

SpecRunner == InitRunner /\ [][NextRunner]_vars

\* C29: once the worker of a job has set the job's final status, the monitor
\* thread never overwrites it: after run_all_parallel has returned each job's
\* status is the one its worker determined and the success flag returned for it
\* equals (that status is completed and the return code is 0).
C29_WorkerStatusIsFinal ==
    scale_pc = "returned" =>
        \A i \in ScaleIdx :
            /\ scale_jobs[i].status = worker_status[i][1]
            /\ scale_results[i] = (worker_status[i][1] = "completed"
                                      /\ scale_jobs[i].return_code = Some(0))

\* what the code keeps to: a job reported successful has return code 0, and the
\* statuses agree whenever the monitor thread never looked at a job
C29_SuccessHasZeroCode ==
    scale_pc = "returned" =>
        \A i \in ScaleIdx :
            /\ scale_results[i] => scale_jobs[i].return_code = Some(0)
            /\ scale_monitor.job = 0 =>
                   /\ scale_jobs[i].status = worker_status[i][1]
                   /\ scale_results[i] = (worker_status[i][1] = "completed"
                                             /\ scale_jobs[i].return_code = Some(0))

(***************************************************************************)
(* CompleteWorkflow.run_complete_workflow (tools/complete_workflow.py):    *)
(* seven steps run in a fixed order, with a resume point and two skip      *)
(* flags.                                                                  *)
(***************************************************************************)
\* step_order, line 740
step_order ==
    <<"setup", "origen-generation", "origen-verification", "scale-generation",
      "scale-execution", "mcnp-generation", "cleanup">>

\* resume_from in step_order
InStepOrder(name) == \E k \in DOMAIN step_order : step_order[k] = name

\* step_order.index(resume_from), counted from 0
StepIndex(name) == (CHOOSE k \in DOMAIN step_order : step_order[k] = name) - 1

\* the truth value Python gives an Optional[str]: None and "" are false
Truthy(opt) == opt # None /\ opt[1] # ""

\* the values run_complete_workflow is called with as resume_from
ResumeInputs ==
    {None} \cup {Some(step_order[k]) : k \in DOMAIN step_order}
           \cup {Some("no-such-step"), Some("")}

\* CompleteWorkflow.__init__: every WorkflowStep is pending
InitWorkflow ==
    /\ IdleBatch
    /\ IdleParser
    /\ IdleMore
    /\ IdleLine
    /\ IdleRunner
    /\ steps = [k \in DOMAIN step_order |-> "pending"]
    /\ skip_flags \in [generation : BOOLEAN, verification : BOOLEAN]
    /\ resume_from = None
    /\ start_index = 0
    /\ step_pos = 0
    /\ workflow_return = None
    /\ start_log = <<>>

\* lines 736-750: the resume point is looked up; an unknown one returns False
run_complete_workflow ==
    /\ step_pos = 0
    /\ workflow_return = None
    /\ \E r \in ResumeInputs :
           /\ resume_from' = r
           /\ IF Truthy(r) /\ ~InStepOrder(r[1])
              THEN /\ workflow_return' = Some(FALSE)
                   /\ UNCHANGED <<start_index, step_pos>>
              ELSE /\ start_index' = IF Truthy(r) THEN StepIndex(r[1]) ELSE 0
                   /\ step_pos' = 1
                   /\ UNCHANGED workflow_return
    /\ UNCHANGED <<steps, skip_flags, start_log>>
    /\ UNCHANGED <<batchVars, genVars, moreVars, auditVars, lineVars, runnerVars>>

\* lines 755-758: a step before the resume point is skipped, its method not called
SkipStep ==
    /\ step_pos \in DOMAIN step_order
    /\ workflow_return = None
    /\ step_pos - 1 < start_index
    /\ steps' = [steps EXCEPT ![step_pos] = "skipped"]
    /\ step_pos' = step_pos + 1
    /\ UNCHANGED <<resume_from, skip_flags, start_index, workflow_return, start_log>>
    /\ UNCHANGED <<batchVars, genVars, moreVars, auditVars, lineVars, runnerVars>>

\* the step method is called: step.start()
StartStep ==
    /\ step_pos \in DOMAIN step_order
    /\ workflow_return = None
    /\ step_pos - 1 >= start_index
    /\ steps[step_pos] # "running"
    /\ steps' = [steps EXCEPT ![step_pos] = "running"]
    /\ start_log' = Append(start_log, step_pos)
    /\ UNCHANGED <<resume_from, skip_flags, start_index, step_pos, workflow_return>>
    /\ UNCHANGED <<batchVars, genVars, moreVars, auditVars, lineVars, runnerVars>>

\* the ways the method of a step can end: step.complete, step.fail, and for the two
\* ORIGEN steps step.skip when the flag is set (lines 299-302, 384-387)
StepOutcomes(pos, flags) ==
    IF step_order[pos] = "origen-verification" /\ flags.verification
    THEN {"skipped"}
    ELSE {"completed", "failed"}
         \cup (IF step_order[pos] = "origen-generation" /\ flags.generation
               THEN {"skipped"} ELSE {})

\* the step method returns: True after complete or skip, False after fail, and the
\* loop goes on or returns False (lines 776-778)
FinishStep ==
    /\ step_pos \in DOMAIN step_order
    /\ workflow_return = None
    /\ steps[step_pos] = "running"
    /\ \E outcome \in StepOutcomes(step_pos, skip_flags) :
           /\ steps' = [steps EXCEPT ![step_pos] = outcome]
           /\ IF outcome = "failed"
              THEN /\ workflow_return' = Some(FALSE)
                   /\ UNCHANGED step_pos
              ELSE /\ step_pos' = step_pos + 1
                   /\ UNCHANGED workflow_return
    /\ UNCHANGED <<resume_from, skip_flags, start_index, start_log>>
    /\ UNCHANGED <<batchVars, genVars, moreVars, auditVars, lineVars, runnerVars>>

\* lines 787-800: after the last step the summary is printed and True returned;
\* an exception raised there returns False
FinishWorkflow ==
    /\ step_pos = Len(step_order) + 1
    /\ workflow_return = None
    /\ \E summary_raises \in BOOLEAN : workflow_return' = Some(~summary_raises)
    /\ UNCHANGED <<steps, resume_from, skip_flags, start_index, step_pos, start_log>>
    /\ UNCHANGED <<batchVars, genVars, moreVars, auditVars, lineVars, runnerVars>>

NextWorkflow ==
    \/ run_complete_workflow
    \/ SkipStep
    \/ StartStep
    \/ FinishStep
    \/ FinishWorkflow

SpecWorkflow == InitWorkflow /\ [][NextWorkflow]_vars

\* the steps are started in step_order
StartedInOrder ==
    \A a, b \in DOMAIN start_log : a < b => start_log[a] < start_log[b]

\* a step that has been started, or skipped for the resume point, has only
\* completed or skipped steps before it
EarlierStepsDone ==
    \A k \in DOMAIN steps :
        steps[k] # "pending" =>
            \A j \in 1..(k - 1) : steps[j] \in {"completed", "skipped"}

\* when a step has failed the workflow returns False and the later steps are
\* pending and were never started
FailureStops ==
    \A k \in DOMAIN steps :
        steps[k] = "failed" =>
            /\ workflow_return \in {None, Some(FALSE)}
            /\ step_pos = k
            /\ \A j \in (k + 1)..Len(steps) :
                   /\ steps[j] = "pending"
                   /\ \A a \in DOMAIN start_log : start_log[a] # j

\* the steps before a valid resume point end skipped and are never started
ResumeSkips ==
    (resume_from # None /\ InStepOrder(resume_from[1]) /\ workflow_return # None) =>
        \A k \in 1..StepIndex(resume_from[1]) :
            /\ steps[k] = "skipped"
            /\ \A a \in DOMAIN start_log : start_log[a] # k

\* a call with a resume point of the given set, none of them a step name, starts
\* no step and returns False with every step pending
InvalidResumeReturnsFalse(invalid) ==
    (resume_from # None /\ resume_from[1] \in invalid) =>
        /\ start_log = <<>>
        /\ \A k \in DOMAIN steps : steps[k] = "pending"
        /\ workflow_return # Some(TRUE)
        /\ step_pos = 0 => workflow_return = Some(FALSE)

C30_OrderedStepsAndNamedResume ==
    /\ StartedInOrder
    /\ EarlierStepsDone
    /\ FailureStops
    /\ ResumeSkips
    /\ InvalidResumeReturnsFalse({"no-such-step"})

\* a resumed run that failed at a later step
C30_ResumedAndFailed ==
    /\ resume_from = Some("scale-execution")
    /\ steps[3] = "skipped"
    /\ steps[6] = "failed"
    /\ steps[7] = "pending"
    /\ workflow_return = Some(FALSE)

====
